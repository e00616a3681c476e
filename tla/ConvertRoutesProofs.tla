------------------------- MODULE ConvertRoutesProofs -------------------------
(***************************************************************************)
(* The slots of a batch are its requests' own, proved for any requests and *)
(* batches of any length.                                                  *)
(***************************************************************************)
EXTENDS ConvertRoutes, SequenceTheorems, TLAPS

(* What a request is answered with that raises nothing but a client error. *)
SlotOf(r) ==
    IF ConvertIndex(r) = "fine" THEN FromArtifacts(r) ELSE FromError(r, ConvertIndex(r))

Expected(r) == ConvertIndex(r) \in ClientErrors \cup {"fine"}

(* The inductive invariant: the slots so far are those of the first         *)
(* requests, one for each turn that is over.                                *)
Slots ==
    /\ results \in Seq(Responses)
    /\ Len(results) <= Len(batch)
    /\ \A i \in DOMAIN results : Expected(batch[i]) /\ results[i] = SlotOf(batch[i])

Turns ==
    /\ turn \in 1 .. Len(batch) + 1
    /\ route = "convert" => Len(batch) = 1 /\ turn = 1 /\ (response = 0 => results = <<>>)
    /\ route = "bulk" => Len(results) = turn - 1
    /\ response = 200 => Len(results) = Len(batch)

Inductive ==
    /\ route \in Routes /\ batch \in Batches /\ response \in {0, 200, 400, 422, 500}
    /\ Slots
    /\ Turns

LEMMA BatchIsSequence ==
  ASSUME batch \in Batches
  PROVE  batch \in Seq(Requests) /\ Len(batch) \in 0 .. MaxBatch
<1>1. PICK n \in 0 .. MaxBatch : batch \in [1 .. n -> Requests]
  BY DEF Batches
<1>2. n \in Nat
  BY MaxBatchAssumption
<1> QED  BY <1>1, <1>2

LEMMA SlotType ==
  ASSUME NEW r \in Requests, Expected(r)
  PROVE  SlotOf(r) \in Responses
<1>1. r.name \in STRING
  BY RequestsAssumption DEF RequestsShape
<1>2. ConversionWarnings(r) \in SUBSET {"properties", "unknown key"}
  BY DEF ConversionWarnings
<1>3. FromArtifacts(r) \in Responses
  BY <1>1, <1>2 DEF FromArtifacts, Responses, Outcomes
<1>4. ConvertIndex(r) \in Outcomes
  BY DEF Expected, ClientErrors, Outcomes, Raised
<1>5. FromError(r, ConvertIndex(r)) \in Responses
  BY <1>1, <1>4 DEF FromError, Responses
<1> QED  BY <1>3, <1>5 DEF SlotOf

(* One more slot, for the request in its place. *)
LEMMA SlotAppended ==
  ASSUME Inductive, Len(results) < Len(batch), Expected(batch[Len(results) + 1]),
         results' = Append(results, SlotOf(batch[Len(results) + 1])), batch' = batch
  PROVE  Slots' /\ Len(results') = Len(results) + 1
<1> DEFINE slot == SlotOf(batch[Len(results) + 1])
<1>1. results \in Seq(Responses) /\ Len(results) \in Nat
  BY DEF Inductive, Slots
<1>2. batch \in Seq(Requests)
  BY BatchIsSequence DEF Inductive
<1>3. batch[Len(results) + 1] \in Requests
  BY <1>1, <1>2
<1>4. slot \in Responses
  BY <1>3, SlotType
<1>5. /\ results' \in Seq(Responses) /\ Len(results') = Len(results) + 1
      /\ \A i \in 1 .. Len(results) : results'[i] = results[i]
      /\ results'[Len(results) + 1] = slot
  BY <1>1, <1>4, AppendProperties
<1>6. ASSUME NEW i \in DOMAIN results'
      PROVE  Expected(batch'[i]) /\ results'[i] = SlotOf(batch'[i])
  <2>1. i \in 1 .. Len(results) + 1
    BY <1>5
  <2>2. CASE i = Len(results) + 1
    BY <1>5, <2>2
  <2>3. CASE i \in 1 .. Len(results)
    BY <1>1, <1>5, <2>3 DEF Inductive, Slots
  <2> QED  BY <1>1, <2>1, <2>2, <2>3
<1> QED  BY <1>1, <1>2, <1>5, <1>6 DEF Slots

LEMMA InitInductive ==
  Init => Inductive
<1> SUFFICES ASSUME Init
             PROVE  Inductive
  OBVIOUS
<1>1. batch \in Seq(Requests)
  BY BatchIsSequence DEF Init
<1>2. results \in Seq(Responses) /\ Len(results) = 0
  BY DEF Init
<1> QED  BY <1>1, <1>2 DEF Init, Inductive, Slots, Turns

LEMMA ConvertInductive ==
  ASSUME Inductive, Convert
  PROVE  Inductive'
<1> DEFINE outcome == ConvertIndex(batch[1])
<1>1. /\ route = "convert" /\ response = 0 /\ results = <<>> /\ turn = 1 /\ Len(batch) = 1
      /\ response' = (IF outcome = "fine" THEN 200
                      ELSE IF outcome \in ClientErrors THEN 400 ELSE 500)
      /\ results' = (IF outcome = "fine" THEN <<FromArtifacts(batch[1])>> ELSE <<>>)
      /\ UNCHANGED <<route, batch, turn>>
  BY DEF Inductive, Turns, Convert, Accepted
<1>2. CASE outcome = "fine"
  <2>1. Expected(batch[1]) /\ SlotOf(batch[1]) = FromArtifacts(batch[1])
    BY <1>2 DEF Expected, SlotOf
  <2>2. Len(results) = 0 /\ results' = Append(results, SlotOf(batch[1]))
    BY <1>1, <1>2, <2>1
  <2>3. Slots' /\ Len(results') = 1
    BY <1>1, <2>1, <2>2, SlotAppended
  <2> QED  BY <1>1, <1>2, <2>3 DEF Inductive, Turns
<1>3. CASE outcome # "fine"
  <2>1. results' = results /\ response' \in {400, 500}
    BY <1>1, <1>3
  <2> QED  BY <1>1, <2>1 DEF Inductive, Slots, Turns
<1> QED  BY <1>2, <1>3

(* The two turns of convert_bulk's loop that give a slot. *)
LEMMA BulkTurnInductive ==
  ASSUME Inductive, BulkConverts \/ BulkFails
  PROVE  Inductive'
<1>1. /\ route = "bulk" /\ response = 0 /\ turn <= Len(batch) /\ turn' = turn + 1
      /\ UNCHANGED <<route, batch, response>>
  BY DEF BulkConverts, BulkFails, MoreInBulk, Accepted
<1>2. turn \in Nat /\ Len(results) = turn - 1 /\ Len(results) \in Nat
  BY <1>1 DEF Inductive, Slots, Turns
<1>3. turn = Len(results) + 1 /\ Len(results) < Len(batch) /\ Len(batch) \in Nat
  BY <1>1, <1>2, BatchIsSequence DEF Inductive
<1>4. Expected(batch[turn]) /\ results' = Append(results, SlotOf(batch[turn]))
  <2>1. CASE BulkConverts
    BY <2>1 DEF BulkConverts, Current, Expected, SlotOf
  <2>2. CASE BulkFails
    BY <2>2 DEF BulkFails, Current, Expected, SlotOf, ClientErrors
  <2> QED  BY <2>1, <2>2
<1>5. Slots' /\ Len(results') = Len(results) + 1
  BY <1>1, <1>3, <1>4, SlotAppended
<1>6. Turns'
  BY <1>1, <1>2, <1>3, <1>5 DEF Turns
<1> QED  BY <1>1, <1>5, <1>6 DEF Inductive

(* The steps that answer, and leave the slots alone. *)
LEMMA AnswerInductive ==
  ASSUME Inductive, Refused \/ BulkRaises \/ BulkReturns
  PROVE  Inductive'
<1>1. /\ response = 0 /\ UNCHANGED <<route, batch, turn, results>>
      /\ response' \in {200, 422, 500}
      /\ response' = 200 => route = "bulk" /\ turn > Len(batch)
  BY DEF Refused, BulkRaises, BulkReturns, MoreInBulk, Accepted
<1>2. Len(batch) \in Nat
  BY BatchIsSequence DEF Inductive
<1>3. response' = 200 => Len(results) = Len(batch)
  BY <1>1, <1>2 DEF Inductive, Turns
<1>4. response' # 0
  BY <1>1
<1>5. Slots'
  BY <1>1 DEF Inductive, Slots
<1>6. Turns'
  BY <1>1, <1>3, <1>4 DEF Inductive, Turns
<1> QED  BY <1>1, <1>5, <1>6 DEF Inductive

(* The invariant the theorems below rest on: each turn that is over has     *)
(* left one slot, the one of the request in its place.                      *)
THEOREM SpecInductive ==
  Spec => []Inductive
<1>1. Inductive /\ [Next]_vars => Inductive'
  <2> SUFFICES ASSUME Inductive, [Next]_vars
               PROVE  Inductive'
    OBVIOUS
  <2>1. CASE Refused \/ BulkRaises \/ BulkReturns
    BY <2>1, AnswerInductive
  <2>2. CASE Convert
    BY <2>2, ConvertInductive
  <2>3. CASE BulkConverts \/ BulkFails
    BY <2>3, BulkTurnInductive
  <2>4. CASE Answered \/ UNCHANGED vars
    BY <2>4 DEF Answered, vars, Inductive, Slots, Turns
  <2> QED  BY <2>1, <2>2, <2>3, <2>4 DEF Next
<1> QED  BY <1>1, InitInductive, PTL DEF Spec

(* convert_bulk never gives more slots than requests, nor one that is no    *)
(* response.                                                                *)
THEOREM TypeCorrect ==
  Spec => []TypeOK
<1>1. Inductive => TypeOK
  <2> SUFFICES ASSUME Inductive
               PROVE  TypeOK
    OBVIOUS
  <2>1. Len(batch) \in 0 .. MaxBatch
    BY BatchIsSequence DEF Inductive
  <2>2. turn \in 1 .. MaxBatch + 1
    BY <2>1, MaxBatchAssumption DEF Inductive, Turns
  <2>3. \A i \in DOMAIN results : results[i] \in Responses
    BY DEF Inductive, Slots
  <2> QED  BY <2>2, <2>3 DEF Inductive, Slots, TypeOK
<1> QED  BY <1>1, SpecInductive, PTL

(* Whichever requests of a batch fail, wherever they stand and however many *)
(* there are: each slot is that of its own request.                         *)
THEOREM SlotsAreAlwaysOwn ==
  Spec => []SlotsAreOwn
<1>1. Inductive => SlotsAreOwn
  <2> SUFFICES ASSUME Inductive, NEW i \in DOMAIN results
               PROVE  /\ results[i].table_name = batch[i].name
                      /\ results[i].ddl <=> ConvertIndex(batch[i]) = "fine"
                      /\ results[i].warnings =
                           (IF results[i].ddl THEN ConversionWarnings(batch[i]) ELSE {})
                      /\ results[i].error = ConvertIndex(batch[i])
                      /\ results[i].error \in ClientErrors \cup {"fine"}
    BY DEF SlotsAreOwn, Inductive, Turns
  <2>1. Expected(batch[i]) /\ results[i] = SlotOf(batch[i])
    BY DEF Inductive, Slots
  <2>2. CASE ConvertIndex(batch[i]) = "fine"
    BY <2>1, <2>2 DEF SlotOf, FromArtifacts, Expected
  <2>3. CASE ConvertIndex(batch[i]) # "fine"
    BY <2>1, <2>3 DEF SlotOf, FromError, Expected
  <2> QED  BY <2>2, <2>3
<1> QED  BY <1>1, SpecInductive, PTL
=============================================================================
