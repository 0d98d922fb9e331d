--------------------------- MODULE ListenerProofs ---------------------------
(***************************************************************************)
(* Proofs about the listener: until its context is cancelled, however      *)
(* often Serve is called and whenever Close comes, the goroutine that      *)
(* accepts does not trip over a listener that was taken away; and none is  *)
(* left over when Serve is called again.                                   *)
(***************************************************************************)
EXTENDS Listener, TLAPS

\* The types of the listener's state hold for any bounds and environment.
THEOREM TypeCorrect == Spec => []TypeOK
<1>1. Init => TypeOK
  <2>. SUFFICES ASSUME Init PROVE TypeOK
    OBVIOUS
  <2>1. {cancelled, lis, listening} = {FALSE}
    BY DEF Init
  <2>2. served \in 0..MaxServe /\ arrived \in 0..MaxConn
    BY ListenerAssumption DEF Init
  <2>. QED
    BY <2>1, <2>2 DEF Init, TypeOK
<1>2. TypeOK /\ [Next]_vars => TypeOK'
  <2>. SUFFICES ASSUME TypeOK, [Next]_vars PROVE TypeOK'
    OBVIOUS
  <2>. USE ListenerAssumption DEF TypeOK
  <2>1. CASE Cancel \/ Take \/ LeaveLoop
    BY <2>1 DEF Cancel, Take, LeaveLoop
  <2>2. CASE Listen
    BY <2>2 DEF Listen
  <2>10. CASE ListenFails
    <3>1. served' \in 0..MaxServe
      BY <2>10 DEF ListenFails
    <3>2. serve' \in {"down", "exit"} /\ serve = "down"
      BY <2>10 DEF ListenFails, Returned
    <3>. QED
      BY <2>10, <3>1, <3>2 DEF ListenFails
  <2>3. CASE EnterOnce
    BY <2>3 DEF EnterOnce, Returned
  <2>4. CASE CloseListener
    BY <2>4 DEF CloseListener, Returned
  <2>5. CASE Arrive \/ AcceptFails
    BY <2>5 DEF Arrive, AcceptFails
  <2>6. CASE AcceptStep
    BY <2>6 DEF AcceptStep, CheckListener, ReadListener, AcceptEnds
  <2>7. CASE LockListener
    BY <2>7 DEF LockListener
  <2>8. CASE CloseStep
    BY <2>8 DEF CloseStep, CloseOnce, CloseReturns
  <2>9. CASE UNCHANGED vars
    BY <2>9 DEF vars
  <2>. QED
    BY <2>1, <2>2, <2>3, <2>4, <2>5, <2>6, <2>7, <2>8, <2>9, <2>10
    DEF Next, ServeStep, Rest
<1>. QED
  BY <1>1, <1>2, PTL DEF Spec

-----------------------------------------------------------------------------
(***************************************************************************)
(* Without a cancelled context Serve leaves its loop only when newConn is  *)
(* closed, so the goroutine is gone; that takes a closed listener, which   *)
(* only Close can have closed, through the Once, so that the deferred Do   *)
(* does nothing and n.lis is never taken away.                             *)
(***************************************************************************)
InOrder ==
    /\ serve \in {"down", "loop", "defer"}
    /\ serve = "loop" =>
           /\ lis
           /\ ~listening => once = "spent"
           /\ accept = "ended" => ~listening
    /\ serve = "defer" => once = "spent"
    /\ serve # "loop" => accept = "ended"
    /\ accept # "panic"

Orderly ==
    /\ ~cancelled => InOrder
    /\ OneAccepts

\* Every step keeps the order of a shutdown without a cancelled context.
LEMMA OrderlyStep == TypeOK /\ Orderly /\ [Next]_vars => Orderly'
<1>. SUFFICES ASSUME TypeOK, Orderly, [Next]_vars PROVE Orderly'
  OBVIOUS
<1>. USE DEF Orderly, InOrder, OneAccepts
<1>1. CASE Cancel
  BY <1>1 DEF Cancel
<1>2. CASE Take \/ LeaveLoop
  BY <1>2 DEF Take, LeaveLoop
<1>3. CASE Listen \/ ListenFails
  BY <1>3 DEF Listen, ListenFails, Returned
<1>4. CASE EnterOnce
  BY <1>4 DEF EnterOnce, Returned
<1>5. CASE CloseListener
  BY <1>5 DEF CloseListener, Returned
<1>6. CASE Arrive \/ AcceptFails
  BY <1>6 DEF Arrive, AcceptFails
<1>7. CASE AcceptStep
  BY <1>7 DEF AcceptStep, CheckListener, ReadListener, AcceptEnds
<1>8. CASE LockListener
  BY <1>8 DEF LockListener
<1>9. CASE CloseOnce
  BY <1>9 DEF CloseOnce, TypeOK
<1>10. CASE CloseReturns
  BY <1>10 DEF CloseReturns
<1>11. CASE UNCHANGED vars
  BY <1>11 DEF vars
<1>. QED
  BY <1>1, <1>2, <1>3, <1>4, <1>5, <1>6, <1>7, <1>8, <1>9, <1>10, <1>11
  DEF Next, ServeStep, CloseStep, Rest

\* The shutdown is in order in every state of every behaviour.
LEMMA OrderlyHolds == Spec => []Orderly
<1>1. Init => Orderly
  BY DEF Init, Orderly, InOrder, OneAccepts
<1>. QED
  BY <1>1, OrderlyStep, TypeCorrect, PTL DEF Spec

\* The goroutine that accepts never calls Accept on a nil listener, as long
\* as the context of Serve lives.
THEOREM AcceptIsSafe == Spec => []AcceptNotNil
<1>1. Orderly => AcceptNotNil
  BY DEF Orderly, InOrder, AcceptNotNil
<1>. QED
  BY <1>1, OrderlyHolds, PTL

\* A call of Serve that another one may follow leaves no goroutine behind
\* that would compete with the next one's.
THEOREM AcceptorsDoNotPile == Spec => []OneAccepts
<1>1. Orderly => OneAccepts
  BY DEF Orderly
<1>. QED
  BY <1>1, OrderlyHolds, PTL

=============================================================================
