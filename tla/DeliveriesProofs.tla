-------------------------- MODULE DeliveriesProofs --------------------------
(* Proofs about Deliveries: the theorems about the four loops, put together. *)
EXTENDS Deliveries, MessageProofs, PrintingProofs

----------------------------------------------------------------------------
\* A step of one loop is a step of its component and none of the other three.
LEMMA OneLoopSteps ==
  ASSUME [LoopNext]_loopVars
  PROVE  [Next]_vars /\ [NoteNext]_noteVars /\ [CloudNext]_cloudVars /\ [PrintNext]_printVars
<1>1. CASE outboxLoop /\ Next
  BY <1>1 DEF outboxLoop
<1>2. CASE noteLoop /\ NoteNext
  BY <1>2 DEF noteLoop
<1>3. CASE cloudLoop /\ CloudNext
  BY <1>3 DEF cloudLoop
<1>4. CASE bridgeLoop /\ PrintNext
  BY <1>4 DEF bridgeLoop
<1>5. CASE UNCHANGED loopVars
  BY <1>5 DEF loopVars
<1>6. QED  BY <1>1, <1>2, <1>3, <1>4, <1>5 DEF LoopNext

\* A behaviour of one loop beside three that rest is a behaviour of all four components,
\* so that what is proved of any mixture of their steps holds of it.
THEOREM LoopsRunTogether == LoopSpec => TogetherSpec
<1>1. LoopInit => Init /\ NoteInit /\ CloudInit /\ PrintInit
  BY DEF LoopInit
<1>2. QED
  BY <1>1, OneLoopSteps, PTL DEF LoopSpec, TogetherSpec, Spec, NoteSpec, CloudSpec, PrintSpec

----------------------------------------------------------------------------
\* However the steps of the four loops are mixed, their rows, batches, piles and requests
\* keep their types.
THEOREM LoopsAreTyped == TogetherSpec => []LoopTypeOK
<1>1. OutboxIInv /\ NoteIInv /\ CloudIInv /\ PrintIInv => LoopTypeOK
  BY DEF OutboxIInv, NoteIInv, CloudIInv, PrintIInv, LoopTypeOK
<1>2. QED
  BY <1>1, OutboxAlways, NoteAlways, CloudAlways, PrintAlways, PTL DEF TogetherSpec

\* What a row says was done was done, in every loop and however their steps are mixed.
THEOREM RecordsStayTrue == TogetherSpec => []RecordsAreTrue
  BY DeliveredHasArrived, DeliveredNoteWasHanded, CloudStatusIsTrue, StatusIsTrue, PTL
     DEF TogetherSpec, RecordsAreTrue

\* Every loop implements DeliveryPromise, however their steps are mixed.
THEOREM LoopsImplementPromises == TogetherSpec => LoopsKeepTheirPromises
  BY OutboxImplementsPromise, NotesImplementPromise, CloudImplementsPromise,
     BridgeImplementsPromise, PTL
     DEF TogetherSpec, LoopsKeepTheirPromises
=============================================================================
