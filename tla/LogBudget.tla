------------------------------- MODULE LogBudget -------------------------------
(***************************************************************************)
(* The memory all logs together may use: LogBudget in                      *)
(* crates/splitlane-host/src/session.rs.                                   *)
(*                                                                         *)
(* Every session's reader adds to its own log under the log's lock, adds   *)
(* the difference to the total under that lock too, and then, with no lock *)
(* held, cuts the largest logs if the total is over.  A log is a number of *)
(* held bytes; one at its own capacity drops as much as it is given.     *)
(***************************************************************************)
EXTENDS Integers, FiniteSets

CONSTANTS
    Sessions,
    Forgetter,    \* a connection thread that forgets ended sessions
    Nobody,       \* holds no lock
    Cap,          \* LogBudget::cap
    LogCap,       \* the capacity of one log
    MaxWrites,    \* bound of the model: chunks a session prints
    Passes        \* passes of one enforce (64)

ASSUME LogBudgetAssumption ==
    /\ IsFiniteSet(Sessions) /\ Sessions # {}
    /\ Forgetter \notin Sessions /\ Nobody \notin Sessions \cup {Forgetter}
    /\ {Cap, LogCap, MaxWrites, Passes} \subseteq Nat

\* A session stands for its reader thread too
Threads == Sessions \cup {Forgetter}

VARIABLES
    whole,        \* whether a log may offer no place to cut it, in this behaviour
    held,       \* per session: its log's held bytes
    holder,       \* per session: who holds the log's lock
    total,        \* LogBudget::total
    members,      \* who holds LogBudget::members
    enrolled,     \* members that are still there
    at,           \* per thread: where it is
    delta,        \* per thread: a difference not yet accounted
    writes,       \* per session: chunks printed
    ended,        \* sessions that have ended
    \* locals of the one enforce that holds members
    excess, left, scan, victim, target, passes

log == <<whole, held, holder>>
locals == <<excess, left, scan, victim, target, passes>>
budgetVars == <<log, total, members, enrolled, at, delta, writes, ended, locals>>

Goes(t, to) == at' = [at EXCEPT ![t] = to]
Greatest(S) == CHOOSE x \in S : \A y \in S : x >= y

\* A log changes under its lock and the difference is to be accounted
Change(t, s, size) ==
    /\ holder[s] = Nobody
    /\ holder' = [holder EXCEPT ![s] = t]
    /\ held' = [held EXCEPT ![s] = size]
    /\ delta' = [delta EXCEPT ![t] = size - held[s]]

\* The total first, and then the lock is let go of
Accounts(t) ==
    /\ total' = total + delta[t]
    /\ delta' = [delta EXCEPT ![t] = 0]
Unlock(s) == holder' = [holder EXCEPT ![s] = Nobody]

(***************************************************************************)
(* append_output of a session, its reader's thread.                        *)
(***************************************************************************)
Prints(s) ==
    /\ at[s] = "read" /\ s \notin ended /\ writes[s] < MaxWrites
    /\ Change(s, s, IF held[s] < LogCap THEN held[s] + 1 ELSE LogCap)
    /\ writes' = [writes EXCEPT ![s] = @ + 1]
    /\ Goes(s, "account")
    /\ UNCHANGED <<whole, total, members, enrolled, ended, locals>>
AccountedFaulty(s) ==  \* mutant: the log's lock is kept while enforce runs
    /\ at[s] = "account"
    /\ Accounts(s)
    /\ IF total' > Cap THEN UNCHANGED holder ELSE Unlock(s)
    /\ Goes(s, "check")
    /\ UNCHANGED <<whole, held, members, enrolled, writes, ended, locals>>
Accounted(s) ==
    /\ at[s] = "account"
    /\ Accounts(s) /\ Unlock(s)
    /\ Goes(s, "check")
    /\ UNCHANGED <<whole, held, members, enrolled, writes, ended, locals>>

(***************************************************************************)
(* enforce.                                                                *)
(***************************************************************************)
Checks(s) ==
    /\ at[s] = "check"
    /\ Goes(s, IF total <= Cap THEN "read" ELSE "try")
    /\ UNCHANGED <<log, total, members, enrolled, delta, writes, ended, locals>>

\* Whoever arrives second leaves it to the first
Tries(s) ==
    /\ at[s] = "try"
    /\ IF members = Nobody
       THEN /\ members' = s /\ left' = enrolled /\ passes' = Passes
            /\ Goes(s, "pass")
       ELSE UNCHANGED <<members, left, passes>> /\ Goes(s, "read")
    /\ UNCHANGED <<log, total, enrolled, delta, writes, ended, excess, scan, victim, target>>

Enough == passes = 0 \/ total <= Cap
PassBegins(s) ==
    /\ at[s] = "pass"
    /\ Goes(s, IF Enough THEN "leave" ELSE "scan")
    /\ excess' = total - Cap
    /\ scan' = [x \in {} |-> 0]
    /\ passes' = IF Enough THEN passes ELSE passes - 1
    /\ UNCHANGED <<log, total, members, enrolled, delta, writes, ended, left, victim, target>>

\* Each log is looked at under its own lock, one after the other
Looks(s) ==
    /\ at[s] = "scan"
    /\ \E x \in left \ DOMAIN scan :
        /\ holder[x] = Nobody
        /\ scan' = [y \in DOMAIN scan \cup {x} |-> IF y = x THEN held[x] ELSE scan[y]]
    /\ UNCHANGED <<log, total, members, enrolled, at, delta, writes, ended,
                   excess, left, victim, target, passes>>

\* The excess, but no more than half of the log
Target(size) == Greatest({size - excess, size \div 2})
LargestFaulty(x) == TRUE     \* any of the logs
Largest(x) == \A y \in left : scan[y] <= scan[x]
Picks(s) ==
    /\ at[s] = "scan" /\ DOMAIN scan = left
    /\ IF \A x \in left : scan[x] = 0
       THEN Goes(s, "leave") /\ UNCHANGED <<victim, target>>
       ELSE \E x \in left :
            /\ Largest(x) /\ scan[x] > 0
            /\ victim' = x /\ target' = Target(scan[x])
            /\ Goes(s, "cut")
    /\ UNCHANGED <<log, total, members, enrolled, delta, writes, ended,
                   excess, left, scan, passes>>

\* trim_to: down to the target, or not at all.  A log that gave nothing is
\* set aside
\* mutant: what it had is taken from the scan, not from the locked log
CutToFaulty(s, size) ==
    /\ holder[victim] = Nobody
    /\ holder' = [holder EXCEPT ![victim] = s]
    /\ held' = [held EXCEPT ![victim] = size]
    /\ delta' = [delta EXCEPT ![s] = size - scan[victim]]
CutTo(s, size) == Change(s, victim, size)
Cuts(s) ==
    /\ at[s] = "cut"
    /\ \/ held[victim] > target /\ CutTo(s, target) /\ left' = left
       \/ /\ held[victim] <= target \/ whole
          /\ CutTo(s, held[victim]) /\ left' = left \ {victim}
    /\ Goes(s, "settle")
    /\ UNCHANGED <<whole, total, members, enrolled, writes, ended, excess, scan, victim, target, passes>>
Settles(s) ==
    /\ at[s] = "settle"
    /\ Accounts(s) /\ Unlock(victim)
    /\ Goes(s, "pass")
    /\ UNCHANGED <<whole, held, members, enrolled, writes, ended, locals>>

Leaves(s) ==
    /\ at[s] = "leave"
    /\ members' = Nobody
    /\ Goes(s, "read")
    /\ UNCHANGED <<log, total, enrolled, delta, writes, ended, locals>>

(***************************************************************************)
(* A session ends, and is forgotten: release_log.                          *)
(***************************************************************************)
Ends(s) ==
    /\ at[s] = "read" /\ s \notin ended
    /\ ended' = ended \cup {s}
    /\ UNCHANGED <<log, total, members, enrolled, at, delta, writes, locals>>
Forgets(s) ==
    /\ at[Forgetter] = "read" /\ s \in ended /\ s \in enrolled
    /\ enrolled' = enrolled \ {s}
    /\ Change(Forgetter, s, 0)
    /\ Goes(Forgetter, "release")
    /\ UNCHANGED <<whole, total, members, writes, ended, locals>>
Released ==
    /\ at[Forgetter] = "release"
    /\ Accounts(Forgetter)
    /\ holder' = [x \in Sessions |-> IF holder[x] = Forgetter THEN Nobody ELSE holder[x]]
    /\ Goes(Forgetter, "read")
    /\ UNCHANGED <<whole, held, members, enrolled, writes, ended, locals>>

(***************************************************************************)
(* The specification.                                                      *)
(***************************************************************************)
BudgetInit ==
    /\ whole \in BOOLEAN
    /\ held = [s \in Sessions |-> 0] /\ holder = [s \in Sessions |-> Nobody]
    /\ total = 0 /\ members = Nobody /\ enrolled = Sessions
    /\ at = [t \in Threads |-> "read"] /\ delta = [t \in Threads |-> 0]
    /\ writes = [s \in Sessions |-> 0] /\ ended = {}
    /\ excess = 0 /\ left = {} /\ scan = [x \in {} |-> 0]
    /\ victim = (CHOOSE s \in Sessions : TRUE) /\ target = 0 /\ passes = 0

Enforces(s) ==
    \/ Accounted(s) \/ Checks(s) \/ Tries(s) \/ PassBegins(s)
    \/ Looks(s) \/ Picks(s) \/ Cuts(s) \/ Settles(s) \/ Leaves(s)

BudgetNext ==
    \/ \E s \in Sessions : Prints(s) \/ Enforces(s) \/ Ends(s) \/ Forgets(s)
    \/ Released

\* Readers and the connection thread run on
BudgetSpec ==
    /\ BudgetInit /\ [][BudgetNext]_budgetVars
    /\ \A s \in Sessions : WF_budgetVars(Enforces(s))
    /\ WF_budgetVars(Released)

(***************************************************************************)
(* What must hold of the budget of all logs.                               *)
(***************************************************************************)
\* Type correctness; the total is unsigned and never runs below zero.
BudgetTypeOK ==
    /\ whole \in BOOLEAN
    /\ held \in [Sessions -> 0..LogCap]
    /\ holder \in [Sessions -> Threads \cup {Nobody}]
    /\ total \in Nat /\ members \in Sessions \cup {Nobody}
    /\ enrolled \subseteq Sessions /\ ended \subseteq Sessions
    /\ at \in [Threads -> {"read", "account", "check", "try", "pass", "scan", "cut", "settle",
                           "leave", "release"}]
    /\ delta \in [Threads -> Int] /\ writes \in [Sessions -> 0..MaxWrites]
    /\ excess \in Int /\ left \subseteq Sessions /\ DOMAIN scan \subseteq Sessions
    /\ victim \in Sessions /\ target \in 0..LogCap /\ passes \in 0..Passes

\* The total is the number of bytes that all logs hold, but for what a thread
\* that has changed a log and still has its lock is about to account.
Counted == [s \in Sessions |-> held[s] - (IF holder[s] = Nobody THEN 0 ELSE delta[holder[s]])]
Bytes(c) == {b \in Sessions \X (1..LogCap) : b[2] <= c[b[1]]}
TotalExact ==
    BudgetTypeOK /\ Counted \in [Sessions -> 0..LogCap] /\ total = Cardinality(Bytes(Counted))

\* "The session that printed the most pays, and a quiet session keeps its
\* whole history": a log that was given no more than its share, and no more than
\* it has room for, is not cut.
\* Without more this does not hold: a forgotten log leaves the list before its
\* bytes leave the total, and the others are cut for them.
Share == Cap \div Cardinality(Sessions)
QuietKeeps ==
    \A s \in enrolled : writes[s] <= Share /\ writes[s] <= LogCap => held[s] = writes[s]
\* The same for as long as no session was forgotten: the total is then never
\* more than the logs hold, whenever it is read.  Nor if another log offers no
\* place to cut: the next largest then pays instead.
QuietSpared == enrolled = Sessions /\ ~whole => QuietKeeps

\* An enforce ends, and the next one can begin: members is let go of.
EnforceEnds == members # Nobody ~> members = Nobody

\* "This is the bound on their sum": when every reader waits for output, all
\* logs together are within the cap.  This does not hold: a reader may leave
\* the excess to an enforcer that has just looked for the last time.
WithinCap == (\A t \in Threads : at[t] = "read") => total <= Cap

\* The total is exact, and nobody pays for what others hold or held
\* (TotalExact, QuietSpared).
FairlyCounted == TotalExact /\ QuietSpared
=============================================================================
