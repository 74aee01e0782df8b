--------------------------- MODULE UserPriorities ---------------------------
(***************************************************************************)
(* The fair-share policy of FairViolaTaskExecutor: which user's run a      *)
(* worker takes.  userPriorities is a java.util.PriorityQueue of           *)
(* TasksInWindow, i.e. a binary heap in an array, ordered by the number of *)
(* runs a user had taken in the last two hours.  When a pick finds that    *)
(* runs have left that window it lowers the counts inside the heap, which  *)
(* is not told, and polls it.                                              *)
(*                                                                         *)
(* The heap is modelled by its array because the order in which a heap     *)
(* with changed keys is polled depends on it.  Time is not: any prefix of  *)
(* the window may have expired by the next pick.                           *)
(***************************************************************************)
EXTENDS Integers, SequencesExt

CONSTANTS
    Users,
    MaxWindow    \* bound: runs the pool can take within the two hours

ASSUME UserPrioritiesAssumption == MaxWindow \in Nat \ {0}

VARIABLES
    heap,      \* userPriorities: the array of the heap
    count,     \* TasksInWindow.count of every user
    window,    \* executedTaskWindow: the users of the recent runs, oldest first
    waiting    \* the users whose list in pendingTasks is not empty

vars == <<heap, count, window, waiting>>

TypeOK ==
    /\ heap \in Seq(Users)
    /\ count \in [Users -> 0 .. MaxWindow]
    /\ window \in Seq(Users) /\ Len(window) <= MaxWindow
    /\ waiting \in SUBSET Users

Init == heap = << >> /\ count = [u \in Users |-> 0] /\ window = << >> /\ waiting = {}

-----------------------------------------------------------------------------
(* java.util.PriorityQueue over the counts n (external).                   *)

Swap(q, i, j) == [q EXCEPT ![i] = q[j], ![j] = q[i]]

\* The array as it changes, and the place where the loop has come.
Sifting(q) == [heap : [DOMAIN q -> Users], at : DOMAIN q]
Moved(s, i) == [heap |-> Swap(s.heap, s.at, i), at |-> i]

SiftUp(n, q, k) ==
    LET up[s \in Sifting(q)] ==
          IF s.at = 1 \/ n[s.heap[s.at \div 2]] <= n[s.heap[s.at]] THEN s.heap
          ELSE up[Moved(s, s.at \div 2)]
    IN  up[[heap |-> q, at |-> k]]

Child(n, h, i) ==
    IF 2 * i < Len(h) /\ n[h[2 * i + 1]] < n[h[2 * i]] THEN 2 * i + 1 ELSE 2 * i

SiftDown(n, q, k) ==
    LET down[s \in Sifting(q)] ==
          IF \/ 2 * s.at > Len(q)
             \/ n[s.heap[s.at]] <= n[s.heap[Child(n, s.heap, s.at)]] THEN s.heap
          ELSE down[Moved(s, Child(n, s.heap, s.at))]
    IN  down[[heap |-> q, at |-> k]]

Offer(n, q, u) == SiftUp(n, Append(q, u), Len(q) + 1)

\* poll() returns q[1]; the last element takes its place and sinks.
AfterPoll(n, q) ==
    IF Len(q) = 1 THEN << >>
    ELSE SiftDown(n, <<Last(q)>> \o SubSeq(q, 2, Len(q) - 1), 1)

-----------------------------------------------------------------------------

(* The polling loop: users without pending work are set aside into a new   *)
(* heap; the first one with work is counted and joins them, and what is    *)
(* left in the old array is added in its order.                            *)
\* Faulty variants of the definitions they precede end in an underscore; they
\* are there to show that a property notices the fault.
CountedAnew_(n, u) == [n EXCEPT ![u] = 0]
Counted(n, u) == [n EXCEPT ![u] = @ + 1]

AddAllForgotten_(n, q, rest) == q
AddAllUnsorted_(n, q, rest) == q \o rest
AddAll(n, q, rest) ==
    LET add[s \in [heap : Seq(Users), done : 0 .. Len(rest)]] ==
          IF s.done = Len(rest) THEN s.heap
          ELSE add[[heap |-> Offer(n, s.heap, rest[s.done + 1]), done |-> s.done + 1]]
    IN  add[[heap |-> q, done |-> 0]]

Found(n, u, aside, rest) ==
    LET m == Counted(n, u)
    IN  [users |-> {u}, heap |-> AddAll(m, Offer(m, aside, u), rest)]

\* No user is found when the heap runs empty: "assert result != null" fails.
PollUser(n, q) ==
    LET poll[s \in [heap : Seq(Users), aside : Seq(Users)]] ==
          IF s.heap = << >> THEN [users |-> {}, heap |-> s.aside]
          ELSE IF s.heap[1] \in waiting
            THEN Found(n, s.heap[1], s.aside, AfterPoll(n, s.heap))
          ELSE poll[[heap  |-> AfterPoll(n, s.heap),
                     aside |-> Offer(n, s.aside, s.heap[1])]]
    IN  poll[[heap |-> q, aside |-> << >>]]

Occurrences(s, u) == Cardinality({i \in DOMAIN s : s[i] = u})

(* The counts after the first k entries of the window have expired.        *)
NeverExpired_(k) == count
Expired(k) == [u \in Users |-> count[u] - Occurrences(SubSeq(window, 1, k), u)]

Pick(k) ==
    /\ waiting # {}
    /\ Len(window) - k < MaxWindow
    /\ \E n \in {Expired(k)} : \E p \in {PollUser(n, heap)} : \E u \in p.users :
          /\ heap' = p.heap
          /\ count' = Counted(n, u)
          /\ window' = Append(SubSeq(window, k + 1, Len(window)), u)
          /\ waiting' \in {waiting, waiting \ {u}}  \* more of its runs, or its last

(* newPendingTask: a user seen for the first time joins the heap.          *)
NewPendingTask(u) ==
    /\ heap' = IF u \in ToSet(heap) THEN heap ELSE Offer(count, heap, u)
    /\ waiting' = waiting \cup {u}
    /\ UNCHANGED <<count, window>>

(* cancel() takes the last pending run of a user away.                     *)
CancelLast(u) ==
    /\ u \in waiting
    /\ waiting' = waiting \ {u}
    /\ UNCHANGED <<heap, count, window>>

Next ==
    \/ \E k \in 0 .. Len(window) : Pick(k)
    \/ \E u \in Users : NewPendingTask(u)
    \/ \E u \in Users : CancelLast(u)

(* A worker becomes free again and again, and takes a run if there is one. *)
Spec == Init /\ [][Next]_vars
FairSpec == Spec /\ WF_vars(\E k \in 0 .. Len(window) : Pick(k))

-----------------------------------------------------------------------------

ServedLast(u) == window # << >> /\ Last(window) = u
Served(u) == ServedLast(u)'

(* Rebuilding the queue on every pick loses no user and doubles none, so   *)
(* "assert result != null" holds: a user with pending work is always found.*)
EveryUserQueuedOnce ==
    /\ \A i, j \in DOMAIN heap : heap[i] = heap[j] => i = j
    /\ waiting \subseteq ToSet(heap)

(* Between picks the heap is in order again: the damage done by lowering   *)
(* counts in place lasts for one pick.                                     *)
HeapInOrder ==
    \A k \in 2 .. Len(heap) : count[heap[k \div 2]] <= count[heap[k]]

(* What the next pick relies on.                                           *)
HeapSound == TypeOK /\ EveryUserQueuedOnce /\ HeapInOrder

(* The counts are the numbers of runs in the window, although they are     *)
(* raised and lowered in place by different picks.                         *)
CountsMatchWindow ==
    \A u \in Users : count[u] = Occurrences(window, u)

(* "giving higher priority to submissions from users that have not been    *)
(* recently submitting large amounts of jobs" (FairViolaTaskExecutor.java: *)
(* 13-14): the user that is served is one of the least active ones with    *)
(* pending work.  Only the pick that finds that runs have left the window  *)
(* is excepted: it lowers counts in the heap without telling it.           *)
LeastActiveIsServed ==
    [][Pick(0) => \A u \in Users : Served(u) =>
                     \A v \in waiting : count[u] <= count[v]]_vars

(* No user starves: pending work of a user is eventually served (or        *)
(* cancelled), whatever the others submit and however the window moves.    *)
NobodyStarves ==
    \A u \in Users : u \in waiting ~> (u \notin waiting \/ ServedLast(u))
=============================================================================
