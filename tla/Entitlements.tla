---------------------------- MODULE Entitlements ----------------------------
(***************************************************************************)
(* Subscription rows and what a master is entitled to                      *)
(* (use_cases/entitlements.py, repositories/subscription.py, plans.py).    *)
(* Operators only: the modules that keep rows apply these to them.         *)
(*                                                                         *)
(* Instants are naturals (ticks); an SQL NULL is Null = 0, an instant that *)
(* has passed in every state, so "until IS NOT NULL AND until > now" is    *)
(* s.until > now and GREATEST(COALESCE(old, new), new) is a maximum.       *)
(***************************************************************************)
EXTENDS Integers

CONSTANTS
    FreeBookings,  \* FREE_BOOKINGS_PER_MONTH_LIMIT
    MonthLen,      \* ticks in a local month
    DayLen,        \* ticks in a local day
    TrialDays      \* TRIAL_DAYS

ASSUME PlanConstants ==
    /\ FreeBookings \in Nat \ {0}
    /\ MonthLen \in Nat \ {0}
    /\ DayLen \in Nat \ {0}
    /\ TrialDays \in Nat \ {0}

Null == 0

Later(x, y) == IF x >= y THEN x ELSE y

\* plan "NONE": the master has no subscription row
SubRow == [plan : {"NONE", "FREE", "PRO"}, trial : Nat, paid : Nat]

NoSub == [plan |-> "NONE", trial |-> Null, paid |-> Null]

-----------------------------------------------------------------------------
(* EntitlementsService.get_plan *)

PaidActive(s, now) == s.paid > now

TrialActive(s, now) == s.trial > now

LifetimePro(s) == s.plan = "PRO" /\ s.paid = Null /\ s.trial = Null

IsPro(s, now) ==
    s.plan # "NONE" /\ (PaidActive(s, now) \/ TrialActive(s, now) \/ LifetimePro(s))

(* The local calendar: month and day of an instant. *)
MonthOf(at) == at \div MonthLen

DayOf(at) == at \div DayLen

\* end_of_day_utc: the first tick after the day
EndOfDay(day) == (day + 1) * DayLen

\* the trial ends with the local day TRIAL_DAYS - 1 days from today
TrialUntil(now) == EndOfDay(DayOf(now) + TrialDays - 1)

-----------------------------------------------------------------------------
(* SubscriptionRepository: every write is an upsert that never shortens. *)

UpsertTrial(s, until) ==
    [plan |-> "FREE", trial |-> Later(s.trial, until), paid |-> s.paid]

\* Mutant: without GREATEST.
GrantProOverwriting(s, until) == [plan |-> "PRO", trial |-> s.trial, paid |-> until]

GrantPro(s, until) ==
    [plan |-> "PRO", trial |-> s.trial, paid |-> Later(s.paid, until)]

\* an UPDATE: without a row there is nothing to revoke
RevokePro(s, now) ==
    IF s.plan = "NONE" THEN s
    ELSE [plan |-> "FREE", trial |-> IF s.trial <= now THEN Null ELSE s.trial, paid |-> Null]

=============================================================================
