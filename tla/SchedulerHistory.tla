-------------------------- MODULE SchedulerHistory --------------------------
(***************************************************************************)
(* Scheduler with a count of the ticks that the current entry of the plan  *)
(* has had, against which the plan can be judged without the kernel's own  *)
(* account: check_schedule rewrites last_change_tick and PPP_debt at every *)
(* device.  The count follows the steps of Scheduler and holds none back.  *)
(***************************************************************************)
EXTENDS SchedulerInvariant

VARIABLE age  \* ticks of the current entry, those taken while a DEVICE ran left out

hvars == <<vars, age>>

HInit == Init /\ age = 0

RecordAge ==
  age' = IF PPP_index' # PPP_index THEN 0
         ELSE IF tick' # tick /\ ~Runs(DEVICE) THEN age + 1 ELSE age

HNext == Next /\ RecordAge

HSpec == HInit /\ [][HNext]_hvars

HFairSpec == HSpec /\ Fairness

-----------------------------------------------------------------------------
(* The time an entry of the plan gets.                                     *)

\* A PERIODIC process that runs is in the first PPPMax + 1 tick periods of its
\* entry (the test that ends an entry is PPPMax < delta), however often devices
\* have pre-empted it: the account that check_schedule carries through them
\* (PPP_debt, last_change_tick) never lengthens an entry.
EntryNotOverrun ==
  halted = "no" /\ Runs(PERIODIC) => age <= PPPMax[PPP_index]

=============================================================================
