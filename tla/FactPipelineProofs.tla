------------------------- MODULE FactPipelineProofs -------------------------
(***************************************************************************)
(* Proofs about FactPipeline, for every set of requests, conversations and *)
(* facts, every key function under which conversations of one key fit the  *)
(* same facts, every leftover row and every number of attempts.            *)
(***************************************************************************)
EXTENDS FactPipeline, TLAPS

IInv == TypeOK /\ PipelineInv

LEMMA KeyInKeys == ASSUME TypeOK, NEW r \in Requests PROVE Key(r) \in Keys
  BY KeyOfIsFunction DEF Key, TypeOK

(* Nothing that obtain does to the table replaces a row: a filled row is   *)
(* the same after every step.                                              *)
LEMMA FilledRowsStay ==
  ASSUME TypeOK, [Next]_vars, NEW k \in Keys, store[k] # Absent
  PROVE  store'[k] = store[k]
  <1>1. ASSUME NEW r \in Requests, Write(r) PROVE store'[k] = store[k]
    BY <1>1 DEF Write, Inserted, TypeOK
  <1>2. ASSUME NEW r \in Requests, WriteFails(r) PROVE store'[k] = store[k]
    BY <1>2 DEF WriteFails, Inserted, TypeOK
  <1>3. ASSUME UNCHANGED store PROVE store'[k] = store[k]
    BY <1>3
  <1> QED
    BY <1>1, <1>2, <1>3 DEF Next, Obtain, vars, Start, Hit, Miss, ReadFails, AskModel,
       Extracted, WrongAnswer, ExtractionFails

LEMMA InitIInv == Init => IInv
  <1> SUFFICES ASSUME Init PROVE IInv
    OBVIOUS
  <1>1. TypeOK
    BY LeftoversAreRows, AttemptsPositive DEF Init, TypeOK, Rows
  <1>2. PipelineInv
    BY DEF Init, PipelineInv
  <1> QED
    BY <1>1, <1>2 DEF IInv

LEMMA NextTypeOK == TypeOK /\ PipelineInv /\ [Next]_vars => TypeOK'
  <1> SUFFICES ASSUME TypeOK, PipelineInv, [Next]_vars PROVE TypeOK'
    OBVIOUS
  <1> USE AttemptsPositive DEF TypeOK, Rows
  <1>1. ASSUME NEW r \in Requests, Start(r) PROVE TypeOK'
    BY <1>1 DEF Start
  <1>2. ASSUME NEW r \in Requests, Hit(r) PROVE TypeOK'
    BY <1>2 DEF Hit, Finish, Serves
  <1>3. ASSUME NEW r \in Requests, Miss(r) \/ ReadFails(r) PROVE TypeOK'
    BY <1>3 DEF Miss, ReadFails, AskModel
  <1>4. ASSUME NEW r \in Requests, Extracted(r) PROVE TypeOK'
    BY <1>4 DEF Extracted
  <1>5. ASSUME NEW r \in Requests, WrongAnswer(r) PROVE TypeOK'
    BY <1>5 DEF WrongAnswer
  <1>6. ASSUME NEW r \in Requests, ExtractionFails(r) PROVE TypeOK'
    BY <1>6 DEF ExtractionFails, Finish
  <1>7. ASSUME NEW r \in Requests, Write(r) \/ WriteFails(r) PROVE TypeOK'
    <2>1. store' \in [Keys -> Rows]
      BY <1>7 DEF Write, WriteFails, Inserted
    <2> QED
      BY <1>7, <2>1 DEF Write, WriteFails, Finish
  <1>8. ASSUME UNCHANGED vars PROVE TypeOK'
    BY <1>8 DEF vars
  <1> QED
    BY <1>1, <1>2, <1>3, <1>4, <1>5, <1>6, <1>7, <1>8 DEF Next, Obtain

LEMMA NextPipelineInv == TypeOK /\ PipelineInv /\ [Next]_vars => PipelineInv'
  <1> SUFFICES ASSUME TypeOK, PipelineInv, [Next]_vars PROVE PipelineInv'
    OBVIOUS
  <1>0. \A r \in Requests : Key(r) \in Keys
    BY KeyInKeys
  <1>00. \A r \in Requests : origin[r] = "cache" => store'[Key(r)] = store[Key(r)]
    BY <1>0, FilledRowsStay, RowsDistinct DEF PipelineInv
  <1> USE DEF TypeOK, PipelineInv, Key
  <1>1. ASSUME NEW r \in Requests, Start(r) PROVE PipelineInv'
    BY <1>1 DEF Start
  <1>2. ASSUME NEW r \in Requests, Hit(r) PROVE PipelineInv'
    BY <1>2 DEF Hit, Finish, Serves, Fits
  <1>3. ASSUME NEW r \in Requests, Miss(r) \/ ReadFails(r) PROVE PipelineInv'
    BY <1>3 DEF Miss, ReadFails, AskModel
  <1>4. ASSUME NEW r \in Requests, Extracted(r) PROVE PipelineInv'
    BY <1>4 DEF Extracted, Fits
  <1>5. ASSUME NEW r \in Requests, WrongAnswer(r) PROVE PipelineInv'
    BY <1>5 DEF WrongAnswer
  <1>6. ASSUME NEW r \in Requests, ExtractionFails(r) PROVE PipelineInv'
    BY <1>6 DEF ExtractionFails, Finish
  <1>7. ASSUME NEW r \in Requests, Write(r) \/ WriteFails(r) PROVE PipelineInv'
    BY <1>00, <1>7 DEF Write, WriteFails, Finish
  <1>8. ASSUME UNCHANGED vars PROVE PipelineInv'
    BY <1>8 DEF vars
  <1> QED
    BY <1>1, <1>2, <1>3, <1>4, <1>5, <1>6, <1>7, <1>8 DEF Next, Obtain

LEMMA NextIInv == IInv /\ [Next]_vars => IInv'
  BY NextTypeOK, NextPipelineInv DEF IInv

LEMMA Invariance == Spec => []IInv
  BY InitIInv, NextIInv, PTL DEF Spec

-----------------------------------------------------------------------------
(* The pipeline's variables keep their types.                              *)
THEOREM PipelineTypeOK == Spec => []TypeOK
  <1>1. IInv => TypeOK
    BY DEF IInv
  <1> QED
    BY <1>1, Invariance, PTL

(* The facts that obtain returns fit the conversation they are about, be   *)
(* they the model's, the cache's or another request's.                     *)
THEOREM FactsFit == Spec => []DeliveredFactsFit
  <1>1. IInv => DeliveredFactsFit
    BY DEF IInv, TypeOK, PipelineInv, DeliveredFactsFit
  <1> QED
    BY <1>1, Invariance, PTL

(* Two answers taken from the cache under one key are the same facts.      *)
THEOREM CacheIsConsistent == Spec => []CacheAnswersAgree
  <1>1. IInv => CacheAnswersAgree
    BY DEF IInv, PipelineInv, CacheAnswersAgree
  <1> QED
    BY <1>1, Invariance, PTL

(* A row is written at most once, by a request whose facts were validated  *)
(* for a conversation of that key.                                         *)
THEOREM RowsImmutable == Spec => RowsWrittenOnce
  <1> DEFINE A == \A k \in Keys : store'[k] # store[k] =>
                    /\ store[k] = Absent
                    /\ \E r \in Requests : /\ pc[r] = "writing"
                                           /\ Key(r) = k
                                           /\ <<store'[k], conv[r]>> \in Fitting
  <1>1. IInv /\ [Next]_vars => [A]_vars
    <2> SUFFICES ASSUME IInv, [Next]_vars, NEW k \in Keys, store'[k] # store[k]
                 PROVE  /\ store[k] = Absent
                        /\ \E r \in Requests : /\ pc[r] = "writing"
                                               /\ Key(r) = k
                                               /\ <<store'[k], conv[r]>> \in Fitting
      OBVIOUS
    <2>1. store[k] = Absent
      BY FilledRowsStay DEF IInv
    <2>2. PICK r \in Requests : Write(r) \/ WriteFails(r)
      BY DEF Next, Obtain, vars, Start, Hit, Miss, ReadFails, AskModel,
             Extracted, WrongAnswer, ExtractionFails
    <2>3. pc[r] = "writing" /\ <<answer[r], conv[r]>> \in Fitting
      BY <2>2 DEF Write, WriteFails, IInv, PipelineInv
    <2>4. Key(r) = k /\ store'[k] = answer[r]
      BY <2>1, <2>2 DEF Write, WriteFails, Inserted, IInv, TypeOK
    <2> QED
      BY <2>1, <2>3, <2>4
  <1> QED
    BY <1>1, Invariance, PTL DEF Spec, RowsWrittenOnce

-----------------------------------------------------------------------------
(* What the table owes to the conversations already answered.              *)
LEMMA InitCache == Init => CacheInv
  BY KeyOfIsFunction DEF Init, CacheInv

(* Only the two writes fill a row, each with the answer in hand, which     *)
(* fits the conversation asked about and so every conversation of its key. *)
LEMMA NextCache == IInv /\ CacheInv /\ [Next]_vars => CacheInv'
  <1> SUFFICES ASSUME IInv, CacheInv, [Next]_vars PROVE CacheInv'
    OBVIOUS
  <1> USE DEF IInv
  <1>0. \A r \in Requests : Key(r) \in Keys
    BY KeyInKeys
  <1>1. ASSUME NEW r \in Requests, Write(r) \/ WriteFails(r) PROVE CacheInv'
    <2>1. answer[r] \in Facts /\ <<answer[r], conv[r]>> \in Fitting /\ answer[r] # Absent
      BY <1>1, RowsDistinct DEF Write, WriteFails, PipelineInv
    <2>2. \A c \in Conversations : KeyOf[c] = Key(r) => <<answer[r], c>> \in Fitting
      BY <2>1, TwinsFitAlike DEF Key, TypeOK
    <2>3. \A k \in Keys : store'[k] = store[k] \/ (k = Key(r) /\ store'[k] = answer[r])
      BY <1>1 DEF Write, WriteFails, Inserted, TypeOK
    <2>4. \A c \in Conversations : KeyOf[c] \in Keys
      BY KeyOfIsFunction
    <2>5. \A c \in Conversations :
             \/ store'[KeyOf[c]] \in Leftovers \cup {Absent}
             \/ <<store'[KeyOf[c]], c>> \in Fitting
      BY <2>2, <2>3, <2>4 DEF CacheInv
    <2>6. ASSUME NEW q \in Requests, origin'[q] = "model", q \notin writeLost'
          PROVE  store'[Key(q)] # Absent
      <3>1. CASE q = r
        BY <1>0, <1>1, <2>1, <2>6, <3>1 DEF Write, WriteFails, Inserted, TypeOK
      <3>2. CASE q # r
        <4>1. origin[q] = "model" /\ q \notin writeLost
          BY <1>1, <2>6, <3>2 DEF Write, WriteFails, Finish, TypeOK
        <4> QED
          BY <1>0, <4>1, FilledRowsStay DEF CacheInv
      <3> QED
        BY <3>1, <3>2
    <2>7. \A q \in Requests : Key(q)' = Key(q)
      BY <1>1 DEF Write, WriteFails, Key
    <2> QED
      BY <2>5, <2>6, <2>7 DEF CacheInv
  <1>2. ASSUME UNCHANGED <<store, conv, writeLost>>,
               \A q \in Requests : origin'[q] = "model" => origin[q] = "model"
        PROVE  CacheInv'
    BY <1>2 DEF CacheInv, Key
  <1>3. ASSUME NEW r \in Requests, Start(r) \/ Obtain(r), ~Write(r), ~WriteFails(r)
        PROVE  CacheInv'
    <2>1. UNCHANGED <<store, conv, writeLost>>
      BY <1>3 DEF Obtain, Start, Hit, Miss, ReadFails, AskModel, Extracted, WrongAnswer,
         ExtractionFails
    <2>2. \A q \in Requests : origin'[q] = "model" => origin[q] = "model"
      BY <1>3 DEF Obtain, Start, Hit, Miss, ReadFails, AskModel, Extracted, WrongAnswer,
         ExtractionFails, Finish, TypeOK
    <2> QED
      BY <1>2, <2>1, <2>2
  <1>4. ASSUME UNCHANGED vars PROVE CacheInv'
    BY <1>2, <1>4 DEF vars
  <1> QED
    BY <1>1, <1>3, <1>4 DEF Next

(* An identical conversation costs no model call once an answer to it was  *)
(* stored, over any race of requests and any failure of the cache, unless  *)
(* its own read fails or a bad row of an older deployment is in the way.   *)
THEOREM IdenticalIsFree == Spec => IdenticalCostsNoCall
  <1> DEFINE I == IInv /\ CacheInv
             A == \A r \in Requests :
                    attempt[r] = 0 /\ attempt'[r] # 0 /\ r \notin readLost' /\ AnsweredBefore(r) =>
                      /\ store[Key(r)] \in Leftovers \ {Absent}
                      /\ \A q \in Requests : Key(q) = Key(r) => origin[q] # "cache"
  <1>1. Init => I
    BY InitIInv, InitCache
  <1>2. I /\ [Next]_vars => I'
    BY NextIInv, NextCache
  <1>3. I /\ [Next]_vars => [A]_vars
    <2> SUFFICES ASSUME I, [Next]_vars, NEW r \in Requests, attempt[r] = 0,
                        attempt'[r] # 0, r \notin readLost', AnsweredBefore(r)
                 PROVE  /\ store[Key(r)] \in Leftovers \ {Absent}
                        /\ \A q \in Requests : Key(q) = Key(r) => origin[q] # "cache"
      OBVIOUS
    <2> USE DEF IInv
    <2>1. PICK q \in Requests : Miss(q) \/ ReadFails(q) \/ WrongAnswer(q)
      BY DEF Next, Obtain, vars, Start, Hit, Extracted, ExtractionFails, Write, WriteFails
    <2>2. q = r
      BY <2>1 DEF Miss, ReadFails, AskModel, WrongAnswer, TypeOK
    <2>3. ~(store[Key(r)] \in Facts /\ <<store[Key(r)], conv[r]>> \in Fitting)
      BY <2>1, <2>2 DEF Miss, ReadFails, WrongAnswer, PipelineInv, Serves, Fits
    <2>4. \A p \in Requests : Key(p) = Key(r) => origin[p] # "cache"
      <3> SUFFICES ASSUME NEW p \in Requests, Key(p) = Key(r), origin[p] = "cache"
                   PROVE  FALSE
        OBVIOUS
      <3>1. store[Key(r)] \in Facts /\ <<store[Key(r)], conv[p]>> \in Fitting
        BY DEF PipelineInv
      <3>2. conv[p] \in Conversations /\ conv[r] \in Conversations
        BY DEF TypeOK
      <3>3. <<store[Key(r)], conv[r]>> \in Fitting
        BY <3>1, <3>2, TwinsFitAlike DEF Key
      <3> QED
        BY <2>3, <3>1, <3>3
    <2>5. store[Key(r)] # Absent
      BY <2>4 DEF AnsweredBefore, CacheInv
    <2>6. conv[r] \in Conversations
      BY DEF TypeOK
    <2>7. <<store[Key(r)], conv[r]>> \notin Fitting
      BY <2>3, FittingIsRelation
    <2> QED
      BY <2>4, <2>5, <2>6, <2>7 DEF CacheInv, Key
  <1> QED
    BY <1>1, <1>2, <1>3, PTL DEF Spec, IdenticalCostsNoCall

=============================================================================
