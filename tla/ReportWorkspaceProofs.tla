----------------------- MODULE ReportWorkspaceProofs -----------------------
(***************************************************************************)
(* Theorems about ReportWorkspace, for any number of processes, requests,  *)
(* sections and knowledge bases, and every mix of requests.  The argument  *)
(* is the same for the four properties: what a request has left tells      *)
(* what it has read (Suffix), and the invariant says how much of what it   *)
(* has read still holds, given what others have committed (span).          *)
(***************************************************************************)
EXTENDS ReportWorkspace, SequenceTheorems, FiniteSetTheorems, TLAPS

\* The steps of one process.
Step(p) ==
    \/ Start(p) \/ Abandon(p)
    \/ ReadReport(p) \/ LoadReport(p) \/ LoadSection(p) \/ LookAgain(p) \/ FlushDelete(p) \/ ReadOrder(p)
    \/ ReadSources(p) \/ ReadSource(p) \/ ReadMessage(p) \/ ReadConversation(p) \/ ReadPosition(p)
    \/ ReadLedger(p)
    \/ CommitCreate(p) \/ CommitUpdate(p) \/ CommitDelete(p) \/ CommitInsert(p) \/ CommitAnswer(p)
    \/ CommitWithdraw(p) \/ CommitRescope(p) \/ CommitRebind(p) \/ CommitAppend(p) \/ Record(p)

Awaits == {"report", "section", "order", "flush", "source", "sources", "message", "conversation",
           "position", "ledger", "again", "commit"}

\* s is the end of t.
Suffix(s, t) == Len(s) <= Len(t) /\ \A i \in 1..Len(s) : s[i] = t[Len(t) - Len(s) + i]
-----------------------------------------------------------------------------
(* Requests and what they have left *)

\* The tables of the stores and of the processes keep their domains.
ShapeInv ==
    /\ DOMAIN req = Procs /\ DOMAIN todo = Procs /\ DOMAIN span = Procs /\ DOMAIN mem = Procs
    /\ \A p \in Procs : DOMAIN mem[p] = DOMAIN Blank
    /\ scope \in KBs /\ bound \in KBs
    /\ ledger \in [KBs -> Safety \cup {NoRecord}] /\ said \in [KBs -> SUBSET Safety]

\* What a process has left is the end of what its request awaits.
ControlInv ==
    \A p \in Procs :
        /\ req[p] \in Requests \cup {Idle} /\ todo[p] \in Seq(Awaits)
        /\ todo[p] # <<>> => req[p] \in Requests /\ Suffix(todo[p], Steps(req[p]))

Left(p) == Len(todo[p])

\* A request is a record of its kind.
LEMMA RequestFields ==
    ASSUME NEW r \in Requests
    PROVE  /\ r.kind \in {"create", "update", "delete", "answer", "insert", "withdraw", "rescope",
                          "rebind", "append", "turn"}
           /\ r.kind \in {"insert", "rescope", "rebind", "turn"} => r.kb \in KBs
           /\ r.kind = "turn" => r.safety \in Safety
  BY DEF Requests

LEMMA StepsType ==
    ASSUME NEW r \in Requests
    PROVE  Steps(r) \in Seq(Awaits) /\ Steps(r) # <<>>
<1>1. CASE r.kind = "create"
  BY <1>1 DEF Steps, Awaits
<1>2. CASE r.kind = "delete"
  BY <1>2 DEF Steps, Awaits
<1>3. CASE r.kind = "insert"
  BY <1>3 DEF Steps, Awaits
<1>4. CASE r.kind = "withdraw"
  BY <1>4 DEF Steps, Awaits
<1>5. CASE r.kind = "answer"
  BY <1>5 DEF Steps, Awaits
<1>6. CASE r.kind = "rescope"
  BY <1>6 DEF Steps, Awaits
<1>7. CASE r.kind = "rebind"
  BY <1>7 DEF Steps, Awaits
<1>8. CASE r.kind = "append"
  BY <1>8 DEF Steps, Awaits
<1>9. CASE r.kind = "turn"
  BY <1>9 DEF Steps, Awaits
<1>10. CASE r.kind = "update" /\ r.position = Stay
  BY <1>10 DEF Steps, Awaits
<1>11. CASE r.kind = "update" /\ r.position # Stay
  BY <1>11 DEF Steps, Awaits
<1> QED BY <1>1, <1>2, <1>3, <1>4, <1>5, <1>6, <1>7, <1>8, <1>9, <1>10, <1>11, RequestFields

LEMMA WholeIsSuffix ==
    ASSUME NEW s \in Seq(Awaits)
    PROVE  Suffix(s, s)
<1>1. Len(s) \in Nat
  OBVIOUS
<1> QED BY <1>1 DEF Suffix

\* What is left begins with the step at its place, and goes on with what follows.
LEMMA SuffixSteps ==
    ASSUME NEW F \in Seq(Awaits), NEW s \in Seq(Awaits), s # <<>>, Suffix(s, F)
    PROVE  /\ Len(s) \in 1..Len(F)
           /\ Head(s) = F[Len(F) - Len(s) + 1]
           /\ Suffix(Tail(s), F)
           /\ Tail(s) \in Seq(Awaits)
           /\ Len(Tail(s)) = Len(s) - 1
<1>1. Len(s) \in Nat \ {0} /\ Len(F) \in Nat
  BY EmptySeq, LenProperties
<1>2. Head(s) = s[1]
  BY <1>1
<1>3. /\ Len(Tail(s)) = Len(s) - 1 /\ Tail(s) \in Seq(Awaits)
      /\ \A i \in 1..Len(Tail(s)) : Tail(s)[i] = s[i + 1]
  BY HeadTailProperties
<1>4. Suffix(Tail(s), F)
  BY <1>1, <1>3 DEF Suffix
<1> QED BY <1>1, <1>2, <1>3, <1>4 DEF Suffix

\* How a step moves the process that takes it: it starts a request, it reads, or its
\* request is over.  The others keep what they have and learn what was committed.
Begins(p) == /\ todo[p] = <<>> /\ req'[p] \in Requests /\ todo'[p] = Steps(req'[p])
Looks(p) == /\ todo[p] # <<>> /\ Head(todo[p]) # "commit"
            /\ req'[p] = req[p] /\ todo'[p] = Tail(todo[p])
Stops(p) == /\ todo[p] # <<>> /\ req'[p] = Idle /\ todo'[p] = <<>>
Apart(p) == \A q \in Procs \ {p} :
                /\ req'[q] = req[q] /\ todo'[q] = todo[q] /\ mem'[q] = mem[q]
                /\ todo[q] # <<>> => span[q] \subseteq span'[q]
LEMMA Moves ==
    ASSUME ShapeInv, NEW p \in Procs, Step(p)
    PROVE  Apart(p) /\ (Begins(p) \/ Looks(p) \/ Stops(p))
<1> USE DEF ShapeInv, Apart, At
<1>1. CASE Start(p)
  BY <1>1 DEF Start, Begins
<1>2. ASSUME NEW c, Ends(p, c), todo[p] # <<>> PROVE Apart(p) /\ Stops(p)
  BY <1>2 DEF Ends, Stops
<1>3. ASSUME NEW s, Reads(p, s), todo[p] # <<>>, Head(todo[p]) # "commit" PROVE Apart(p) /\ Looks(p)
  BY <1>3 DEF Reads, Looks
<1>4. CASE Abandon(p)
  BY <1>2, <1>4 DEF Abandon
<1>5. CASE ReadReport(p)
  BY <1>5 DEF ReadReport, Looks
<1>6. CASE LoadReport(p)
  BY <1>3, <1>6 DEF LoadReport
<1>7. CASE LoadSection(p)
  BY <1>3, <1>7 DEF LoadSection
<1>8. CASE LookAgain(p)
  BY <1>3, <1>8 DEF LookAgain
<1>9. CASE FlushDelete(p)
  BY <1>3, <1>9 DEF FlushDelete
<1>10. CASE ReadOrder(p)
  BY <1>3, <1>10 DEF ReadOrder
<1>11. CASE ReadSources(p)
  BY <1>3, <1>11 DEF ReadSources
<1>12. CASE ReadSource(p)
  BY <1>3, <1>12 DEF ReadSource
<1>13. CASE ReadMessage(p)
  BY <1>3, <1>13 DEF ReadMessage
<1>14. CASE ReadConversation(p)
  BY <1>3, <1>14 DEF ReadConversation
<1>15. CASE ReadPosition(p)
  BY <1>3, <1>15 DEF ReadPosition
<1>16. CASE ReadLedger(p)
  BY <1>3, <1>16 DEF ReadLedger
<1>17. CASE CommitCreate(p)
  BY <1>2, <1>17 DEF CommitCreate
<1>18. CASE CommitUpdate(p)
  BY <1>2, <1>18 DEF CommitUpdate
<1>19. CASE CommitDelete(p)
  BY <1>2, <1>19 DEF CommitDelete
<1>20. CASE CommitInsert(p) \/ CommitAnswer(p)
  BY <1>2, <1>20 DEF CommitInsert, CommitAnswer, Inserts
<1>21. CASE CommitWithdraw(p)
  BY <1>2, <1>21 DEF CommitWithdraw
<1>22. CASE CommitRescope(p)
  BY <1>2, <1>22 DEF CommitRescope
<1>23. CASE CommitRebind(p)
  BY <1>2, <1>23 DEF CommitRebind
<1>24. CASE CommitAppend(p)
  BY <1>2, <1>24 DEF CommitAppend
<1>25. CASE Record(p)
  BY <1>2, <1>25 DEF Record
<1> QED BY <1>1, <1>4, <1>5, <1>6, <1>7, <1>8, <1>9, <1>10, <1>11, <1>12, <1>13, <1>14, <1>15,
           <1>16, <1>17, <1>18, <1>19, <1>20, <1>21, <1>22, <1>23, <1>24, <1>25 DEF Step

LEMMA ControlStep ==
    ASSUME ShapeInv, ControlInv, NEW p \in Procs, Step(p)
    PROVE  ControlInv'
<1> SUFFICES ASSUME NEW q \in Procs
             PROVE  /\ req'[q] \in Requests \cup {Idle} /\ todo'[q] \in Seq(Awaits)
                    /\ todo'[q] # <<>> => req'[q] \in Requests /\ Suffix(todo'[q], Steps(req'[q]))
  BY DEF ControlInv
<1>1. CASE q # p
  BY <1>1, Moves DEF Apart, ControlInv
<1>2. CASE q = p /\ Begins(p)
  BY <1>2, StepsType, WholeIsSuffix DEF Begins
<1>3. CASE q = p /\ Looks(p)
  BY <1>3, StepsType, SuffixSteps DEF Looks, ControlInv
<1>4. CASE q = p /\ Stops(p)
  BY <1>4 DEF Stops
<1> QED BY <1>1, <1>2, <1>3, <1>4, Moves

LEMMA NextStep == ASSUME Next PROVE \E p \in Procs : Step(p)
  BY DEF Next, Step
-----------------------------------------------------------------------------
(* The number of steps a request has left tells which one is next *)

\* What a creation has left.
LEMMA CreationPlace ==
    ASSUME ControlInv, NEW p \in Procs, todo[p] # <<>>, req[p].kind = "create"
    PROVE  /\ req[p] \in Requests /\ Left(p) \in 1..3
           /\ Head(todo[p]) = "report" <=> Left(p) = 3
           /\ Head(todo[p]) = "order" <=> Left(p) = 2
           /\ Head(todo[p]) = "commit" <=> Left(p) = 1
<1>1. req[p] \in Requests /\ todo[p] \in Seq(Awaits) /\ Suffix(todo[p], Steps(req[p]))
  BY DEF ControlInv
<1>2. Steps(req[p]) = <<"report", "order", "commit">>
  BY DEF Steps
<1>3. Left(p) \in 1..3 /\ Head(todo[p]) = Steps(req[p])[3 - Left(p) + 1]
  BY <1>1, <1>2, SuffixSteps, StepsType DEF Left
<1>4. Left(p) \in {1, 2, 3}
  BY <1>3
<1> QED BY <1>1, <1>2, <1>3, <1>4

\* What an insertion has left.
LEMMA InsertionPlace ==
    ASSUME ControlInv, NEW p \in Procs, todo[p] # <<>>, req[p].kind = "insert"
    PROVE  /\ req[p] \in Requests /\ Left(p) \in 1..3
           /\ Head(todo[p]) = "report" <=> Left(p) = 3
           /\ Head(todo[p]) = "section" <=> Left(p) = 2
           /\ Head(todo[p]) = "commit" <=> Left(p) = 1
<1>1. req[p] \in Requests /\ todo[p] \in Seq(Awaits) /\ Suffix(todo[p], Steps(req[p]))
  BY DEF ControlInv
<1>2. Steps(req[p]) = <<"report", "section", "commit">>
  BY DEF Steps
<1>3. Left(p) \in 1..3 /\ Head(todo[p]) = Steps(req[p])[3 - Left(p) + 1]
  BY <1>1, <1>2, SuffixSteps, StepsType DEF Left
<1>4. Left(p) \in {1, 2, 3}
  BY <1>3
<1> QED BY <1>1, <1>2, <1>3, <1>4

\* What an answer has left.
LEMMA AnswerPlace ==
    ASSUME ControlInv, NEW p \in Procs, todo[p] # <<>>, req[p].kind = "answer"
    PROVE  /\ req[p] \in Requests /\ Left(p) \in 1..7
           /\ Head(todo[p]) = "report" <=> Left(p) = 7
           /\ Head(todo[p]) = "section" <=> Left(p) = 6
           /\ Head(todo[p]) = "message" <=> Left(p) = 5
           /\ Head(todo[p]) = "conversation" <=> Left(p) = 4
           /\ Head(todo[p]) = "ledger" <=> Left(p) = 3
           /\ Head(todo[p]) = "again" <=> Left(p) = 2
           /\ Head(todo[p]) = "commit" <=> Left(p) = 1
<1>1. req[p] \in Requests /\ todo[p] \in Seq(Awaits) /\ Suffix(todo[p], Steps(req[p]))
  BY DEF ControlInv
<1>2. Steps(req[p]) = <<"report", "section", "message", "conversation", "ledger", "again", "commit">>
  BY DEF Steps
<1>3. Left(p) \in 1..7 /\ Head(todo[p]) = Steps(req[p])[7 - Left(p) + 1]
  BY <1>1, <1>2, SuffixSteps, StepsType DEF Left
<1>4. Left(p) \in {1, 2, 3, 4, 5, 6, 7}
  BY <1>3
<1> QED BY <1>1, <1>2, <1>3, <1>4

\* What a change of the report has left.
LEMMA ChangePlace ==
    ASSUME ControlInv, NEW p \in Procs, todo[p] # <<>>, req[p].kind = "rescope"
    PROVE  /\ req[p] \in Requests /\ Left(p) \in 1..3
           /\ Head(todo[p]) = "report" <=> Left(p) = 3
           /\ Head(todo[p]) = "sources" <=> Left(p) = 2
           /\ Head(todo[p]) = "commit" <=> Left(p) = 1
<1>1. req[p] \in Requests /\ todo[p] \in Seq(Awaits) /\ Suffix(todo[p], Steps(req[p]))
  BY DEF ControlInv
<1>2. Steps(req[p]) = <<"report", "sources", "commit">>
  BY DEF Steps
<1>3. Left(p) \in 1..3 /\ Head(todo[p]) = Steps(req[p])[3 - Left(p) + 1]
  BY <1>1, <1>2, SuffixSteps, StepsType DEF Left
<1>4. Left(p) \in {1, 2, 3}
  BY <1>3
<1> QED BY <1>1, <1>2, <1>3, <1>4

\* What a message has left.
LEMMA MessagePlace ==
    ASSUME ControlInv, NEW p \in Procs, todo[p] # <<>>, req[p].kind = "append"
    PROVE  /\ req[p] \in Requests /\ Left(p) \in 1..3
           /\ Head(todo[p]) = "conversation" <=> Left(p) = 3
           /\ Head(todo[p]) = "position" <=> Left(p) = 2
           /\ Head(todo[p]) = "commit" <=> Left(p) = 1
<1>1. req[p] \in Requests /\ todo[p] \in Seq(Awaits) /\ Suffix(todo[p], Steps(req[p]))
  BY DEF ControlInv
<1>2. Steps(req[p]) = <<"conversation", "position", "commit">>
  BY DEF Steps
<1>3. Left(p) \in 1..3 /\ Head(todo[p]) = Steps(req[p])[3 - Left(p) + 1]
  BY <1>1, <1>2, SuffixSteps, StepsType DEF Left
<1>4. Left(p) \in {1, 2, 3}
  BY <1>3
<1> QED BY <1>1, <1>2, <1>3, <1>4

\* What a turn has left.
LEMMA TurnPlace ==
    ASSUME ControlInv, NEW p \in Procs, todo[p] # <<>>, req[p].kind = "turn"
    PROVE  /\ req[p] \in Requests /\ Left(p) \in 1..3
           /\ Head(todo[p]) = "conversation" <=> Left(p) = 3
           /\ Head(todo[p]) = "ledger" <=> Left(p) = 2
           /\ Head(todo[p]) = "commit" <=> Left(p) = 1
<1>1. req[p] \in Requests /\ todo[p] \in Seq(Awaits) /\ Suffix(todo[p], Steps(req[p]))
  BY DEF ControlInv
<1>2. Steps(req[p]) = <<"conversation", "ledger", "commit">>
  BY DEF Steps
<1>3. Left(p) \in 1..3 /\ Head(todo[p]) = Steps(req[p])[3 - Left(p) + 1]
  BY <1>1, <1>2, SuffixSteps, StepsType DEF Left
<1>4. Left(p) \in {1, 2, 3}
  BY <1>3
<1> QED BY <1>1, <1>2, <1>3, <1>4

\* Reading leaves one step less, and nothing is left before a request and after it.
LEMMA LeftAfter ==
    ASSUME ControlInv, NEW p \in Procs
    PROVE  /\ todo[p] # <<>> => Left(p) \in Nat \ {0}
           /\ Looks(p) => Left(p)' = Left(p) - 1 /\ req'[p] \in Requests
           /\ todo[p] # <<>> => req[p] \in Requests
<1>1. ASSUME todo[p] # <<>>
      PROVE  /\ todo[p] \in Seq(Awaits) /\ Suffix(todo[p], Steps(req[p])) /\ req[p] \in Requests
             /\ Len(todo[p]) \in Nat \ {0} /\ Len(Tail(todo[p])) = Len(todo[p]) - 1
  BY <1>1, SuffixSteps, StepsType DEF ControlInv
<1> QED BY <1>1 DEF Looks, Left

\* Which actions write which part of the stores and of the history.
LEMMA Writers ==
    ASSUME NEW p \in Procs, Step(p)
    PROVE  /\ CommitRescope(p) \/ scope' = scope
           /\ CommitRebind(p) \/ bound' = bound
           /\ CommitAppend(p) \/ messages' = messages
           /\ Record(p) \/ UNCHANGED <<ledger, said, raced>>
           /\ CommitInsert(p) \/ CommitAnswer(p) \/ CommitDelete(p) \/ CommitWithdraw(p) \/ sources' = sources
           /\ CommitInsert(p) \/ CommitAnswer(p) \/ CommitRescope(p) \/ skewed' = skewed
           /\ CommitAnswer(p) \/ inserted' = inserted
           /\ CommitWithdraw(p) \/ withdrawn' = withdrawn
           /\ \/ CommitCreate(p) \/ CommitUpdate(p) \/ CommitDelete(p) \/ CommitInsert(p) \/ CommitAnswer(p)
              \/ sections' = sections
           /\ CommitCreate(p) \/ CommitUpdate(p) \/ CommitDelete(p) \/ disordered' = disordered
           /\ ReadReport(p) \/ born' = born
           /\ numeric' = numeric
<1> USE DEF stores, history
<1>1. CASE Start(p)
  BY <1>1 DEF Start
<1>2. CASE ReadReport(p)
  BY <1>2 DEF ReadReport
<1>3. ASSUME NEW s, Reads(p, s) PROVE UNCHANGED <<stores, history, born, numeric>>
  BY <1>3 DEF Reads
<1>4. CASE LoadReport(p) \/ LoadSection(p) \/ LookAgain(p) \/ FlushDelete(p) \/ ReadOrder(p) \/ ReadSources(p)
  BY <1>3, <1>4 DEF LoadReport, LoadSection, LookAgain, FlushDelete, ReadOrder, ReadSources
<1>5. CASE ReadSource(p) \/ ReadMessage(p) \/ ReadConversation(p) \/ ReadPosition(p) \/ ReadLedger(p)
  BY <1>3, <1>5 DEF ReadSource, ReadMessage, ReadConversation, ReadPosition, ReadLedger
<1>6. ASSUME NEW c, Ends(p, c) PROVE UNCHANGED <<born, numeric>>
  BY <1>6 DEF Ends
<1>7. CASE Abandon(p)
  BY <1>6, <1>7 DEF Abandon
<1>8. CASE CommitCreate(p)
  BY <1>6, <1>8 DEF CommitCreate
<1>9. CASE CommitUpdate(p)
  BY <1>6, <1>9 DEF CommitUpdate, Reordered
<1>10. CASE CommitDelete(p)
  BY <1>6, <1>10 DEF CommitDelete
<1>11. CASE CommitInsert(p)
  BY <1>6, <1>11 DEF CommitInsert, Inserts
<1>12. CASE CommitAnswer(p)
  BY <1>6, <1>12 DEF CommitAnswer, Inserts
<1>13. CASE CommitWithdraw(p)
  BY <1>6, <1>13 DEF CommitWithdraw
<1>14. CASE CommitRescope(p)
  BY <1>6, <1>14 DEF CommitRescope
<1>15. CASE CommitRebind(p)
  BY <1>6, <1>15 DEF CommitRebind
<1>16. CASE CommitAppend(p)
  BY <1>6, <1>16 DEF CommitAppend
<1>17. CASE Record(p)
  BY <1>6, <1>17 DEF Record
<1> QED BY <1>1, <1>2, <1>4, <1>5, <1>7, <1>8, <1>9, <1>10, <1>11, <1>12, <1>13, <1>14, <1>15, <1>16, <1>17 DEF Step

\* The domains stay.
LEMMA ShapeStep ==
    ASSUME ShapeInv, ControlInv, NEW p \in Procs, Step(p)
    PROVE  ShapeInv'
<1>1. DOMAIN req' = Procs /\ DOMAIN todo' = Procs /\ DOMAIN span' = Procs
  <2>1. CASE Start(p)
    BY <2>1 DEF Start, ShapeInv
  <2>2. CASE ReadReport(p)
    BY <2>2 DEF ReadReport, ShapeInv
  <2>3. ASSUME NEW s, Reads(p, s) PROVE DOMAIN req' = Procs /\ DOMAIN todo' = Procs /\ DOMAIN span' = Procs
    BY <2>3 DEF Reads, ShapeInv
  <2>4. ASSUME NEW c, Ends(p, c) PROVE DOMAIN req' = Procs /\ DOMAIN todo' = Procs /\ DOMAIN span' = Procs
    BY <2>4 DEF Ends, ShapeInv
  <2>5. CASE LoadReport(p) \/ LoadSection(p) \/ LookAgain(p) \/ FlushDelete(p) \/ ReadOrder(p) \/ ReadSources(p)
    BY <2>3, <2>5 DEF LoadReport, LoadSection, LookAgain, FlushDelete, ReadOrder, ReadSources
  <2>6. CASE ReadSource(p) \/ ReadMessage(p) \/ ReadConversation(p) \/ ReadPosition(p) \/ ReadLedger(p)
    BY <2>3, <2>6 DEF ReadSource, ReadMessage, ReadConversation, ReadPosition, ReadLedger
  <2>7. CASE Abandon(p) \/ CommitCreate(p) \/ CommitUpdate(p) \/ CommitDelete(p) \/ CommitInsert(p) \/ CommitAnswer(p)
    BY <2>4, <2>7 DEF Abandon, CommitCreate, CommitUpdate, CommitDelete, CommitInsert, CommitAnswer, Inserts
  <2>8. CASE CommitWithdraw(p) \/ CommitRescope(p) \/ CommitRebind(p) \/ CommitAppend(p) \/ Record(p)
    BY <2>4, <2>8 DEF CommitWithdraw, CommitRescope, CommitRebind, CommitAppend, Record
  <2> QED BY <2>1, <2>2, <2>5, <2>6, <2>7, <2>8 DEF Step
<1>2. DOMAIN mem' = Procs /\ \A q \in Procs : DOMAIN mem'[q] = DOMAIN Blank
  <2>1. CASE Start(p)
    BY <2>1 DEF Start, ShapeInv
  <2>2. CASE ReadReport(p)
    BY <2>2 DEF ReadReport, ShapeInv
  <2>3. ASSUME NEW s, Reads(p, s), DOMAIN s = DOMAIN Blank
        PROVE  DOMAIN mem' = Procs /\ \A q \in Procs : DOMAIN mem'[q] = DOMAIN Blank
    BY <2>3 DEF Reads, ShapeInv
  <2>4. ASSUME NEW c, Ends(p, c)
        PROVE  DOMAIN mem' = Procs /\ \A q \in Procs : DOMAIN mem'[q] = DOMAIN Blank
    BY <2>4 DEF Ends, ShapeInv
  <2>5. DOMAIN mem[p] = DOMAIN Blank
    BY DEF ShapeInv
  <2>6. CASE LoadReport(p)
    BY <2>3, <2>5, <2>6 DEF LoadReport
  <2>7. CASE LoadSection(p)
    BY <2>3, <2>5, <2>7 DEF LoadSection
  <2>8. CASE ReadOrder(p)
    BY <2>3, <2>5, <2>8 DEF ReadOrder
  <2>9. CASE LookAgain(p) \/ FlushDelete(p) \/ ReadSources(p) \/ ReadSource(p) \/ ReadMessage(p)
    BY <2>3, <2>5, <2>9 DEF LookAgain, FlushDelete, ReadSources, ReadSource, ReadMessage
  <2>10. CASE ReadConversation(p)
    BY <2>3, <2>5, <2>10 DEF ReadConversation
  <2>11. CASE ReadPosition(p)
    BY <2>3, <2>5, <2>11 DEF ReadPosition
  <2>12. CASE ReadLedger(p)
    BY <2>3, <2>5, <2>12 DEF ReadLedger
  <2>13. CASE Abandon(p) \/ CommitCreate(p) \/ CommitUpdate(p) \/ CommitDelete(p) \/ CommitInsert(p) \/ CommitAnswer(p)
    BY <2>4, <2>13 DEF Abandon, CommitCreate, CommitUpdate, CommitDelete, CommitInsert, CommitAnswer, Inserts
  <2>14. CASE CommitWithdraw(p) \/ CommitRescope(p) \/ CommitRebind(p) \/ CommitAppend(p) \/ Record(p)
    BY <2>4, <2>14 DEF CommitWithdraw, CommitRescope, CommitRebind, CommitAppend, Record
  <2> QED BY <2>1, <2>2, <2>6, <2>7, <2>8, <2>9, <2>10, <2>11, <2>12, <2>13, <2>14 DEF Step
<1>3. ASSUME todo[p] # <<>> PROVE req[p] \in Requests
  BY <1>3, LeftAfter
<1>4. scope' \in KBs /\ bound' \in KBs
  <2>1. CASE CommitRescope(p)
    BY <1>3, <2>1, RequestFields, Writers DEF CommitRescope, At, ShapeInv
  <2>2. CASE CommitRebind(p)
    BY <1>3, <2>2, RequestFields, Writers DEF CommitRebind, At, ShapeInv
  <2> QED BY <2>1, <2>2, Writers DEF ShapeInv
<1>5. ledger' \in [KBs -> Safety \cup {NoRecord}] /\ said' \in [KBs -> SUBSET Safety]
  <2>1. CASE Record(p)
    <3>1. req[p].kb \in KBs /\ req[p].safety \in Safety
      BY <1>3, <2>1, RequestFields DEF Record, At
    <3> QED BY <2>1, <3>1 DEF Record, ShapeInv
  <2> QED BY <2>1, Writers DEF ShapeInv
<1> QED BY <1>1, <1>2, <1>4, <1>5 DEF ShapeInv

\* A step that reads is the one that is next.
LEMMA Labels ==
    ASSUME ShapeInv, ControlInv, NEW p \in Procs, Step(p), Looks(p)
    PROVE  /\ Head(todo[p]) = "report" => ReadReport(p) \/ LoadReport(p)
           /\ Head(todo[p]) = "section" => LoadSection(p)
           /\ Head(todo[p]) = "sources" => ReadSources(p)
           /\ Head(todo[p]) = "message" => ReadMessage(p)
           /\ Head(todo[p]) = "conversation" => ReadConversation(p)
           /\ Head(todo[p]) = "position" => ReadPosition(p)
           /\ Head(todo[p]) = "ledger" => ReadLedger(p)
           /\ Head(todo[p]) = "again" => LookAgain(p)
           /\ Head(todo[p]) = "order" => ReadOrder(p)
           /\ Head(todo[p]) = "flush" => FlushDelete(p)
           /\ UNCHANGED <<stores, history, span>>
<1>1. todo[p] # <<>> /\ Head(todo[p]) # "commit"
  BY DEF Looks
<1>2. ~Start(p)
  BY <1>1 DEF Start
<1>3. ~Abandon(p)
  <2>1. req[p].kind # "idle"
    BY <1>1, LeftAfter, RequestFields
  <2>2. Abandon(p) => req'[p] = Idle
    BY DEF Abandon, Ends, ShapeInv
  <2> QED BY <2>1, <2>2 DEF Looks, Idle
<1>4. /\ ~CommitCreate(p) /\ ~CommitUpdate(p) /\ ~CommitDelete(p) /\ ~CommitInsert(p) /\ ~CommitAnswer(p)
      /\ ~CommitWithdraw(p) /\ ~CommitRescope(p) /\ ~CommitRebind(p) /\ ~CommitAppend(p) /\ ~Record(p)
  BY <1>1 DEF At, CommitCreate, CommitUpdate, CommitDelete, CommitInsert, CommitAnswer, CommitWithdraw,
              CommitRescope, CommitRebind, CommitAppend, Record
<1>5. /\ ReadReport(p) \/ LoadReport(p) => Head(todo[p]) = "report"
      /\ LoadSection(p) => Head(todo[p]) = "section"
      /\ ReadSources(p) => Head(todo[p]) = "sources"
      /\ ReadMessage(p) => Head(todo[p]) = "message"
      /\ ReadConversation(p) => Head(todo[p]) = "conversation"
      /\ ReadPosition(p) => Head(todo[p]) = "position"
      /\ ReadLedger(p) => Head(todo[p]) = "ledger"
      /\ LookAgain(p) => Head(todo[p]) = "again"
      /\ FlushDelete(p) => Head(todo[p]) = "flush"
      /\ ReadOrder(p) => Head(todo[p]) = "order"
      /\ ReadSource(p) => Head(todo[p]) = "source"
  BY DEF At, ReadReport, LoadReport, LoadSection, ReadSources, ReadMessage, ReadConversation, ReadPosition,
         ReadLedger, LookAgain, FlushDelete, ReadOrder, ReadSource
<1>6. UNCHANGED <<stores, history, span>>
  <2>1. CASE ReadReport(p)
    BY <2>1 DEF ReadReport
  <2>2. ASSUME NEW s, Reads(p, s) PROVE UNCHANGED <<stores, history, span>>
    BY <2>2 DEF Reads
  <2>3. CASE LoadReport(p) \/ LoadSection(p) \/ LookAgain(p) \/ FlushDelete(p) \/ ReadOrder(p) \/ ReadSources(p)
    BY <2>2, <2>3 DEF LoadReport, LoadSection, LookAgain, FlushDelete, ReadOrder, ReadSources
  <2>4. CASE ReadSource(p) \/ ReadMessage(p) \/ ReadConversation(p) \/ ReadPosition(p) \/ ReadLedger(p)
    BY <2>2, <2>4 DEF ReadSource, ReadMessage, ReadConversation, ReadPosition, ReadLedger
  <2> QED BY <1>2, <1>3, <1>4, <2>1, <2>3, <2>4 DEF Step
<1> QED BY <1>2, <1>3, <1>4, <1>5, <1>6 DEF Step
-----------------------------------------------------------------------------
(* What is inserted is vouched for *)

\* The ledger holds one of the states the answer has been told with, and a gate that says
\* it is of an image outlasts the others unless two turns have recorded at once.
LedgerInv ==
    \A k \in KBs :
        /\ ledger[k] = NoRecord <=> said[k] = {}
        /\ ledger[k] # NoRecord => ledger[k] \in said[k]
        /\ (\E h \in said[k] : h.gate \in Visual) /\ k \notin raced => ledger[k].gate \in Visual

\* A turn about to record has read the ledger for its own knowledge base, and what it
\* has read is what is there unless another turn has recorded since.
TurnInv(p) ==
    req[p].kind = "turn" /\ todo[p] # <<>> =>
        /\ Left(p) <= 2 => mem[p].bound = req[p].kb
        /\ Left(p) = 1 =>
             /\ mem[p].record \in Safety \cup {NoRecord}
             /\ mem[p].record # NoRecord => ledger[req[p].kb] # NoRecord
             /\ req[p].kb \notin span[p] => mem[p].record = ledger[req[p].kb]

\* An insertion that has read the ledger has read it for the report's knowledge base, and
\* holds a record that was there.
AnswerInv(p) ==
    req[p].kind = "answer" /\ todo[p] # <<>> =>
        /\ Left(p) <= 3 => mem[p].bound \in KBs /\ mem[p].bound = mem[p].scope
        /\ Left(p) <= 2 =>
             /\ mem[p].heard # {}
             /\ Warned(mem[p].heard, mem[p].scope) => Marks(mem[p].record)
             /\ ~(Marks(mem[p].record) /\ numeric)

VouchInv == LedgerInv /\ InsertedIsVouched /\ \A p \in Procs : TurnInv(p) /\ AnswerInv(p)

LEMMA Ranks ==
    /\ \A g \in Visual : Rank[g] > Rank["none"] /\ ~(Rank["none"] > Rank[g])
    /\ ~(Rank["none"] > Rank["none"])
    /\ \A r \in Safety : r.gate \in Visual \/ r.gate = "none"
    /\ NoRecord \notin Safety
<1>1. \A r \in Safety : r.gate \in Visual \/ r.gate = "none"
  BY WorkspaceAssumption
<1>2. NoRecord.gate \notin Visual /\ NoRecord.gate # "none"
  BY DEF NoRecord, Visual, Absent
<1>3. /\ \A g \in Visual : Rank[g] > Rank["none"] /\ ~(Rank["none"] > Rank[g])
      /\ ~(Rank["none"] > Rank["none"])
  BY DEF Visual, Rank
<1> QED BY <1>1, <1>2, <1>3

LEMMA RecordKeepsLedger ==
    ASSUME ShapeInv, ControlInv, VouchInv, NEW p \in Procs, Record(p)
    PROVE  /\ LedgerInv'
           /\ \A k \in KBs : ledger[k] # NoRecord => ledger'[k] # NoRecord
           /\ \A k \in KBs : k # req[p].kb => ledger'[k] = ledger[k]
           /\ \A q \in Procs \ {p} : todo[q] # <<>> => req[p].kb \in span'[q]
<1> DEFINE kb == req[p].kb
           g == req[p].safety
<1>1. req[p].kind = "turn" /\ todo[p] # <<>> /\ Head(todo[p]) = "commit"
  BY DEF Record, At
<1>2. req[p] \in Requests /\ Left(p) = 1
  BY <1>1, TurnPlace
<1>3. kb \in KBs /\ g \in Safety
  BY <1>1, <1>2, RequestFields
<1>4. /\ mem[p].record \in Safety \cup {NoRecord}
      /\ mem[p].record # NoRecord => ledger[kb] # NoRecord
      /\ kb \notin span[p] => mem[p].record = ledger[kb]
  BY <1>1, <1>2 DEF VouchInv, TurnInv
<1>5. /\ ledger' = IF Keeps(mem[p].record, g) THEN ledger ELSE [ledger EXCEPT ![kb] = g]
      /\ said' = [said EXCEPT ![kb] = @ \cup {g}]
      /\ raced' = IF kb \in span[p] THEN raced \cup {kb} ELSE raced
  BY DEF Record
<1>6. g # NoRecord /\ (g.gate \in Visual \/ g.gate = "none")
  BY <1>3, Ranks
<1>7. \A k \in KBs : k # kb => ledger'[k] = ledger[k] /\ said'[k] = said[k] /\ (k \in raced' <=> k \in raced)
  BY <1>3, <1>5 DEF ShapeInv
<1>8. said'[kb] = said[kb] \cup {g} /\ (ledger'[kb] = g \/ (Keeps(mem[p].record, g) /\ ledger'[kb] = ledger[kb]))
  <2>1. said'[kb] = said[kb] \cup {g}
    BY <1>3, <1>5 DEF ShapeInv
  <2>2. CASE Keeps(mem[p].record, g)
    BY <1>5, <2>1, <2>2
  <2>3. CASE ~Keeps(mem[p].record, g)
    <3>1. ledger' = [ledger EXCEPT ![kb] = g]
      BY <1>5, <2>3
    <3>2. ledger'[kb] = g
      BY <1>3, <3>1 DEF ShapeInv
    <3> QED BY <2>1, <3>2
  <2> QED BY <2>2, <2>3
<1>9. ledger'[kb] # NoRecord /\ ledger'[kb] \in said'[kb]
  <2>1. CASE ledger'[kb] = g
    BY <1>6, <1>8, <2>1
  <2>2. CASE Keeps(mem[p].record, g) /\ ledger'[kb] = ledger[kb]
    <3>1. ledger[kb] # NoRecord
      BY <1>4, <2>2 DEF Keeps
    <3> QED BY <1>3, <1>8, <2>2, <3>1 DEF VouchInv, LedgerInv
  <2> QED BY <1>8, <2>1, <2>2
<1>10. ASSUME \E h \in said'[kb] : h.gate \in Visual, kb \notin raced' PROVE ledger'[kb].gate \in Visual
  <2>1. kb \notin span[p] /\ kb \notin raced /\ mem[p].record = ledger[kb]
    BY <1>4, <1>5, <1>10
  <2>2. ledger[kb] \in Safety \cup {NoRecord}
    BY <1>3 DEF ShapeInv
  <2>3. CASE g.gate \in Visual
    <3>1. CASE Keeps(mem[p].record, g)
      <4>1. ledger[kb] # NoRecord /\ Rank[ledger[kb].gate] > Rank[g.gate]
        BY <2>1, <3>1 DEF Keeps
      <4>2. ledger[kb].gate \in Visual
        BY <2>2, <2>3, <4>1, Ranks
      <4> QED BY <1>5, <3>1, <4>2
    <3> QED BY <1>8, <2>3, <3>1
  <2>4. CASE g.gate \notin Visual
    <3>1. g.gate = "none" /\ \E h \in said[kb] : h.gate \in Visual
      BY <1>6, <1>8, <1>10, <2>4
    <3>2. ledger[kb].gate \in Visual
      BY <1>3, <2>1, <3>1 DEF VouchInv, LedgerInv
    <3>3. ledger[kb] # NoRecord
      BY <3>2 DEF NoRecord, Visual, Absent
    <3>4. Keeps(mem[p].record, g)
      BY <2>1, <3>1, <3>2, <3>3, Ranks DEF Keeps
    <3> QED BY <1>5, <3>2, <3>4
  <2> QED BY <2>3, <2>4
<1>11. LedgerInv'
  <2> SUFFICES ASSUME NEW k \in KBs
               PROVE  /\ ledger'[k] = NoRecord <=> said'[k] = {}
                      /\ ledger'[k] # NoRecord => ledger'[k] \in said'[k]
                      /\ (\E h \in said'[k] : h.gate \in Visual) /\ k \notin raced' => ledger'[k].gate \in Visual
    BY DEF LedgerInv
  <2>1. CASE k = kb
    BY <1>8, <1>9, <1>10, <2>1
  <2>2. CASE k # kb
    BY <1>7, <2>2 DEF VouchInv, LedgerInv
  <2> QED BY <2>1, <2>2
<1>12. \A q \in Procs \ {p} : todo[q] # <<>> => kb \in span'[q]
  BY DEF Record, Ends
<1> QED BY <1>7, <1>9, <1>11, <1>12

LEMMA TurnStep ==
    ASSUME ShapeInv, ControlInv, VouchInv, NEW p \in Procs, Step(p), NEW q \in Procs
    PROVE  TurnInv(q)'
<1> SUFFICES ASSUME req'[q].kind = "turn", todo'[q] # <<>>
             PROVE  /\ Left(q)' <= 2 => mem'[q].bound = req'[q].kb
                    /\ Left(q)' = 1 =>
                         /\ mem'[q].record \in Safety \cup {NoRecord}
                         /\ mem'[q].record # NoRecord => ledger'[req'[q].kb] # NoRecord
                         /\ req'[q].kb \notin span'[q] => mem'[q].record = ledger'[req'[q].kb]
  BY DEF TurnInv
<1>1. CASE q # p
  <2>1. /\ req'[q] = req[q] /\ todo'[q] = todo[q] /\ mem'[q] = mem[q] /\ Left(q)' = Left(q)
        /\ span[q] \subseteq span'[q]
    BY <1>1, Moves DEF Apart, Left
  <2>2. TurnInv(q) /\ req[q] \in Requests /\ req[q].kb \in KBs
    BY <2>1, LeftAfter, RequestFields DEF VouchInv
  <2>3. CASE Record(p)
    <3>1. /\ ledger[req[q].kb] # NoRecord => ledger'[req[q].kb] # NoRecord
          /\ req[q].kb # req[p].kb => ledger'[req[q].kb] = ledger[req[q].kb]
          /\ req[p].kb \in span'[q]
      BY <1>1, <2>1, <2>2, <2>3, RecordKeepsLedger
    <3> QED BY <2>1, <2>2, <3>1 DEF TurnInv
  <2>4. CASE ~Record(p)
    <3>1. ledger' = ledger
      BY <2>4, Writers
    <3> QED BY <2>1, <2>2, <3>1 DEF TurnInv
  <2> QED BY <2>3, <2>4
<1>2. CASE q = p /\ Begins(p)
  <2>1. todo'[p] = <<"conversation", "ledger", "commit">>
    BY <1>2 DEF Begins, Steps
  <2>2. Left(p)' = 3
    BY <2>1 DEF Left
  <2> QED BY <1>2, <2>2
<1>3. CASE q = p /\ Looks(p)
  <2>1. /\ req[p].kind = "turn" /\ todo[p] # <<>> /\ req'[p] = req[p] /\ Left(p)' = Left(p) - 1
        /\ Head(todo[p]) # "commit"
    BY <1>3, LeftAfter DEF Looks
  <2>2. Left(p) \in {2, 3} /\ TurnInv(p) /\ req[p].kb \in KBs
    BY <2>1, TurnPlace, RequestFields DEF VouchInv
  <2>3. CASE Left(p) = 3
    <3>1. ReadConversation(p)
      BY <1>3, <2>1, <2>3, TurnPlace, Labels
    <3>2. mem'[p].bound = req[p].kb
      BY <2>1, <3>1 DEF ReadConversation, Reads, ShapeInv, Blank
    <3> QED BY <1>3, <2>1, <2>3, <3>2
  <2>4. CASE Left(p) = 2
    <3>1. ReadLedger(p)
      BY <1>3, <2>1, <2>4, TurnPlace, Labels
    <3>2. mem[p].bound = req[p].kb
      BY <2>1, <2>2, <2>4 DEF TurnInv
    <3>3. mem'[p].bound = req[p].kb /\ mem'[p].record = ledger[req[p].kb] /\ ledger' = ledger
      BY <3>1, <3>2 DEF ReadLedger, Reads, ShapeInv, Blank, stores
    <3>4. ledger[req[p].kb] \in Safety \cup {NoRecord}
      BY <2>2 DEF ShapeInv
    <3> QED BY <1>3, <2>1, <3>3, <3>4
  <2> QED BY <2>2, <2>3, <2>4
<1>4. CASE q = p /\ Stops(p)
  BY <1>4 DEF Stops
<1> QED BY <1>1, <1>2, <1>3, <1>4, Moves

LEMMA AnswerStep ==
    ASSUME ShapeInv, ControlInv, VouchInv, NEW p \in Procs, Step(p), NEW q \in Procs
    PROVE  AnswerInv(q)'
<1> SUFFICES ASSUME req'[q].kind = "answer", todo'[q] # <<>>
             PROVE  /\ Left(q)' <= 3 => mem'[q].bound \in KBs /\ mem'[q].bound = mem'[q].scope
                    /\ Left(q)' <= 2 =>
                         /\ mem'[q].heard # {}
                         /\ Warned(mem[q].heard, mem[q].scope)' => Marks(mem'[q].record)
                         /\ ~(Marks(mem'[q].record) /\ numeric')
  BY DEF AnswerInv, Marks, Warned
<1>1. raced \subseteq raced' /\ numeric' = numeric
  <2>1. Record(p) => raced \subseteq raced'
    BY DEF Record
  <2> QED BY <2>1, Writers
<1>2. CASE q # p
  <2>1. req'[q] = req[q] /\ todo'[q] = todo[q] /\ mem'[q] = mem[q] /\ Left(q)' = Left(q)
    BY <1>2, Moves DEF Apart, Left
  <2> QED BY <1>1, <2>1 DEF VouchInv, AnswerInv, Warned
<1>3. CASE q = p /\ Begins(p)
  <2>1. todo'[p] = <<"report", "section", "message", "conversation", "ledger", "again", "commit">>
    BY <1>3 DEF Begins, Steps
  <2>2. Left(p)' = 7
    BY <2>1 DEF Left
  <2> QED BY <1>3, <2>2
<1>4. CASE q = p /\ Looks(p)
  <2>1. /\ req[p].kind = "answer" /\ todo[p] # <<>> /\ req'[p] = req[p] /\ Left(p)' = Left(p) - 1
        /\ Head(todo[p]) # "commit"
    BY <1>4, LeftAfter DEF Looks
  <2>2. Left(p) \in {2, 3, 4, 5, 6, 7} /\ AnswerInv(p)
    BY <2>1, AnswerPlace DEF VouchInv
  <2>3. CASE Left(p) >= 5
    BY <1>4, <2>1, <2>2, <2>3
  <2>4. CASE Left(p) = 4
    <3>1. ReadConversation(p)
      BY <1>4, <2>1, <2>4, AnswerPlace, Labels
    <3>2. mem'[p].bound = bound /\ mem'[p].scope = mem[p].scope /\ bound = mem[p].scope /\ bound \in KBs
      BY <2>1, <3>1 DEF ReadConversation, Reads, ShapeInv, Blank
    <3> QED BY <1>4, <2>1, <2>4, <3>2
  <2>5. CASE Left(p) = 3
    <3>1. ReadLedger(p)
      BY <1>4, <2>1, <2>5, AnswerPlace, Labels
    <3>2. mem[p].bound \in KBs /\ mem[p].bound = mem[p].scope
      BY <2>1, <2>2, <2>5 DEF AnswerInv
    <3>3. /\ mem'[p].bound = mem[p].bound /\ mem'[p].scope = mem[p].scope
          /\ mem'[p].record = ledger[mem[p].bound] /\ mem'[p].heard = said[mem[p].bound]
      BY <3>1 DEF ReadLedger, Reads, ShapeInv, Blank
    <3>4. ledger[mem[p].bound] # NoRecord /\ ~(Marks(ledger[mem[p].bound]) /\ numeric)
      BY <2>1, <3>1 DEF ReadLedger
    <3>5. /\ said[mem[p].bound] # {}
          /\ Warned(said[mem[p].bound], mem[p].bound) => Marks(ledger[mem[p].bound])
      BY <3>2, <3>4 DEF VouchInv, LedgerInv, Warned, Marks
    <3> QED BY <1>1, <1>4, <3>2, <3>3, <3>4, <3>5 DEF Warned
  <2>6. CASE Left(p) = 2
    <3>1. LookAgain(p)
      BY <1>4, <2>1, <2>6, AnswerPlace, Labels
    <3>2. mem'[p] = mem[p]
      BY <3>1 DEF LookAgain, Reads, ShapeInv
    <3> QED BY <1>1, <1>4, <2>1, <2>2, <2>6, <3>2 DEF AnswerInv, Warned
  <2> QED BY <2>2, <2>3, <2>4, <2>5, <2>6
<1>5. CASE q = p /\ Stops(p)
  BY <1>5 DEF Stops
<1> QED BY <1>2, <1>3, <1>4, <1>5, Moves

LEMMA InsertedStep ==
    ASSUME ShapeInv, ControlInv, VouchInv, NEW p \in Procs, Step(p)
    PROVE  InsertedIsVouched'
<1>1. raced \subseteq raced' /\ numeric' = numeric
  <2>1. Record(p) => raced \subseteq raced'
    BY DEF Record
  <2> QED BY <2>1, Writers
<1>2. CASE CommitAnswer(p)
  <2>1. req[p].kind = "answer" /\ todo[p] # <<>> /\ Head(todo[p]) = "commit"
    BY <1>2 DEF CommitAnswer, At
  <2>2. Left(p) = 1 /\ AnswerInv(p)
    BY <2>1, AnswerPlace DEF VouchInv
  <2>3. /\ mem[p].heard # {}
        /\ Warned(mem[p].heard, mem[p].scope) => Marks(mem[p].record)
        /\ ~(Marks(mem[p].record) /\ numeric)
    BY <2>1, <2>2 DEF AnswerInv
  <2>4. inserted' = inserted \cup {[kb |-> mem[p].scope, draft |-> Marks(mem[p].record), heard |-> mem[p].heard]}
    BY <1>2 DEF CommitAnswer
  <2> SUFFICES ASSUME NEW i \in inserted'
               PROVE  /\ i.heard # {}
                      /\ Warned(i.heard, i.kb)' => i.draft /\ ~numeric'
    BY DEF InsertedIsVouched, Warned, Marks
  <2>5. CASE i \in inserted
    BY <1>1, <2>5 DEF VouchInv, InsertedIsVouched, Warned
  <2>6. CASE i = [kb |-> mem[p].scope, draft |-> Marks(mem[p].record), heard |-> mem[p].heard]
    <3>1. i.kb = mem[p].scope /\ i.draft = Marks(mem[p].record) /\ i.heard = mem[p].heard
      BY <2>6
    <3> QED BY <1>1, <2>3, <3>1 DEF Warned
  <2> QED BY <2>4, <2>5, <2>6
<1>3. CASE ~CommitAnswer(p)
  BY <1>1, <1>3, Writers DEF VouchInv, InsertedIsVouched, Warned
<1> QED BY <1>2, <1>3

LEMMA VouchStep ==
    ASSUME ShapeInv, ControlInv, VouchInv, NEW p \in Procs, Step(p)
    PROVE  VouchInv'
<1>1. LedgerInv'
  <2>1. CASE Record(p)
    BY <2>1, RecordKeepsLedger
  <2>2. CASE ~Record(p)
    BY <2>2, Writers DEF VouchInv, LedgerInv
  <2> QED BY <2>1, <2>2
<1>2. \A q \in Procs : TurnInv(q)' /\ AnswerInv(q)'
  BY TurnStep, AnswerStep
<1> QED BY <1>1, <1>2, InsertedStep DEF VouchInv
-----------------------------------------------------------------------------
(* Messages keep their order *)

\* What a request that appends may rely on: the messages it has seen are still the first
\* ones, and the position it has read is above theirs.
AppendInv(p) ==
    req[p].kind = "append" /\ todo[p] # <<>> =>
        /\ mem[p].since \in 0..Len(messages)
        /\ Left(p) = 1 => /\ mem[p].top \in Nat
                          /\ \A i \in 1..mem[p].since : messages[i].position < mem[p].top

\* One message has the greatest position, and none has seen more than there are.
OrderInv ==
    /\ messages \in Seq([position : Nat, since : Nat])
    /\ messages # <<>> =>
         \E i \in DOMAIN messages : \A j \in DOMAIN messages : messages[j].position <= messages[i].position
    /\ \A j \in DOMAIN messages : messages[j].since <= Len(messages)
    /\ MessagesKeepOrder
    /\ \A p \in Procs : AppendInv(p)

\* A new position is above all that are there.
LEMMA NextPositionAbove ==
    ASSUME OrderInv
    PROVE  NextPosition \in Nat /\ \A i \in DOMAIN messages : messages[i].position < NextPosition
<1>1. CASE messages = <<>>
  BY <1>1 DEF NextPosition
<1>2. CASE messages # <<>>
  <2> DEFINE S == {m.position : m \in ToSet(messages)}
  <2>1. \A i \in DOMAIN messages : messages[i].position \in S /\ messages[i].position \in Nat
    <3>1. \A i \in DOMAIN messages : messages[i] \in ToSet(messages)
      BY DEF ToSet
    <3>2. \A i \in DOMAIN messages : messages[i] \in [position : Nat, since : Nat]
      BY ElementOfSeq, LenProperties DEF OrderInv
    <3> QED BY <3>1, <3>2
  <2>2. PICK i \in DOMAIN messages : \A j \in DOMAIN messages : messages[j].position <= messages[i].position
    BY <1>2 DEF OrderInv
  <2>3. \A x \in S : x \in Nat /\ x <= messages[i].position
    BY <2>1, <2>2 DEF ToSet
  <2>4. \E x \in S : \A y \in S : x >= y
    BY <2>1, <2>3
  <2>5. Max(S) \in S /\ \A y \in S : Max(S) >= y
    BY <2>4 DEF Max
  <2>6. NextPosition = Max(S) + 1
    BY <1>2 DEF NextPosition
  <2>7. Max(S) \in Nat
    BY <2>3, <2>5
  <2> HIDE DEF S
  <2>8. \A j \in DOMAIN messages : messages[j].position <= Max(S)
    BY <2>1, <2>5, <2>7
  <2> QED BY <2>1, <2>6, <2>7, <2>8
<1> QED BY <1>1, <1>2

\* The message that is appended comes last, and above those it has seen.
LEMMA AppendStep ==
    ASSUME ControlInv, OrderInv, NEW p \in Procs, CommitAppend(p)
    PROVE  /\ messages' \in Seq([position : Nat, since : Nat])
           /\ \E i \in DOMAIN messages' : \A j \in DOMAIN messages' :
                  messages'[j].position <= messages'[i].position
           /\ \A j \in DOMAIN messages' : messages'[j].since <= Len(messages')
           /\ MessagesKeepOrder'
           /\ Len(messages') = Len(messages) + 1
           /\ \A i \in 1..Len(messages) : messages'[i] = messages[i]
<1> DEFINE n == Len(messages)
           m == [position |-> mem[p].top, since |-> mem[p].since]
<1>1. req[p].kind = "append" /\ todo[p] # <<>> /\ Head(todo[p]) = "commit"
  BY DEF CommitAppend, At
<1>2. Left(p) = 1 /\ AppendInv(p)
  BY <1>1, MessagePlace DEF OrderInv
<1>3. /\ mem[p].top \in Nat /\ mem[p].since \in 0..n
      /\ \A i \in 1..mem[p].since : messages[i].position < mem[p].top
  BY <1>1, <1>2 DEF AppendInv
<1>4. messages \in Seq([position : Nat, since : Nat]) /\ n \in Nat /\ DOMAIN messages = 1..n
  BY DEF OrderInv
<1>5. messages' = Append(messages, m)
  BY DEF CommitAppend
<1>6. m \in [position : Nat, since : Nat] /\ m.position = mem[p].top /\ m.since = mem[p].since
  BY <1>3, <1>4
<1> HIDE DEF m
<1>7. /\ messages' \in Seq([position : Nat, since : Nat]) /\ Len(messages') = n + 1
      /\ DOMAIN messages' = 1..(n + 1) /\ messages'[n + 1] = m
      /\ \A i \in 1..n : messages'[i] = messages[i]
  BY <1>4, <1>5, <1>6
<1> HIDE DEF n
<1>8. \A i \in 1..n : messages[i].position \in Nat /\ messages[i].since \in Nat /\ messages[i].since <= n
  <2>1. \A i \in DOMAIN messages : messages[i] \in [position : Nat, since : Nat]
    BY <1>4, ElementOfSeq DEF n
  <2>2. \A i \in DOMAIN messages : messages[i].since <= n
    BY DEF OrderInv, n
  <2> QED BY <1>4, <2>1, <2>2
<1>9. \E i \in DOMAIN messages' : \A j \in DOMAIN messages' : messages'[j].position <= messages'[i].position
  <2>1. CASE n = 0
    BY <1>6, <1>7, <1>3, <2>1
  <2>2. CASE n # 0
    <3>1. PICK i \in 1..n : \A j \in 1..n : messages[j].position <= messages[i].position
      <4>1. messages # <<>>
        BY <1>4, <2>2 DEF n
      <4>2. \E i \in DOMAIN messages : \A j \in DOMAIN messages : messages[j].position <= messages[i].position
        BY <4>1 DEF OrderInv
      <4> QED BY <1>4, <4>2
    <3>2. CASE messages[i].position <= m.position
      <4>1. \A j \in 1..n : messages'[j].position <= m.position
        BY <1>3, <1>6, <1>7, <1>8, <3>1, <3>2
      <4>2. messages'[n + 1].position = m.position /\ m.position \in Nat /\ n + 1 \in 1..(n + 1)
        BY <1>3, <1>4, <1>6, <1>7
      <4>3. \A j \in 1..(n + 1) : j \in 1..n \/ j = n + 1
        BY <1>4
      <4>4. \A j \in 1..(n + 1) : messages'[j].position <= messages'[n + 1].position
        BY <4>1, <4>2, <4>3
      <4> QED BY <1>7, <4>2, <4>4
    <3>3. CASE ~(messages[i].position <= m.position)
      <4>1. messages'[i] = messages[i] /\ messages[i].position \in Nat /\ i \in 1..(n + 1)
        BY <1>4, <1>7, <1>8
      <4>2. messages'[n + 1].position = m.position /\ m.position \in Nat
        BY <1>3, <1>6, <1>7
      <4>3. messages'[n + 1].position <= messages'[i].position
        BY <3>3, <4>1, <4>2
      <4>4. \A j \in 1..n : messages'[j].position <= messages'[i].position
        BY <1>7, <3>1, <4>1
      <4>5. \A j \in 1..(n + 1) : j \in 1..n \/ j = n + 1
        BY <1>4
      <4>6. \A j \in 1..(n + 1) : messages'[j].position <= messages'[i].position
        BY <4>3, <4>4, <4>5
      <4> QED BY <1>7, <4>1, <4>6
    <3> QED BY <3>2, <3>3
  <2> QED BY <2>1, <2>2
<1>10. \A j \in DOMAIN messages' : messages'[j].since <= n + 1
  <2>1. \A j \in 1..(n + 1) : j \in 1..n \/ j = n + 1
    BY <1>4
  <2>2. \A j \in 1..n : messages'[j].since <= n + 1
    BY <1>4, <1>7, <1>8
  <2>3. messages'[n + 1].since <= n + 1
    BY <1>3, <1>4, <1>6, <1>7
  <2> QED BY <1>7, <2>1, <2>2, <2>3
<1>11. ASSUME NEW i \in 1..(n + 1), NEW j \in 1..(n + 1), i <= messages'[j].since
       PROVE  messages'[i].position < messages'[j].position
  <2>1. CASE j \in 1..n
    <3>1. i \in 1..n
      BY <1>4, <1>7, <1>8, <1>11, <2>1
    <3> QED BY <1>4, <1>7, <1>11, <2>1, <3>1 DEF OrderInv, MessagesKeepOrder
  <2>2. CASE j = n + 1
    <3>1. i \in 1..mem[p].since /\ i \in 1..n
      BY <1>3, <1>4, <1>6, <1>7, <1>11, <2>2
    <3> QED BY <1>3, <1>6, <1>7, <2>2, <3>1
  <2> QED BY <1>4, <2>1, <2>2
<1>12. MessagesKeepOrder'
  BY <1>7, <1>11 DEF MessagesKeepOrder
<1> QED BY <1>7, <1>9, <1>10, <1>12 DEF n

LEMMA OrderStep ==
    ASSUME ShapeInv, ControlInv, OrderInv, NEW p \in Procs, Step(p)
    PROVE  OrderInv'
<1>1. CASE CommitAppend(p)
  <2> SUFFICES ASSUME NEW q \in Procs, req'[q].kind = "append", todo'[q] # <<>>
               PROVE  /\ mem'[q].since \in 0..Len(messages')
                      /\ Left(q)' = 1 =>
                           /\ mem'[q].top \in Nat
                           /\ \A i \in 1..mem'[q].since : messages'[i].position < mem'[q].top
    BY <1>1, AppendStep DEF OrderInv, AppendInv
  <2>1. q # p
    BY <1>1 DEF CommitAppend, Ends, ShapeInv
  <2>2. req'[q] = req[q] /\ todo'[q] = todo[q] /\ mem'[q] = mem[q] /\ Left(q)' = Left(q)
    BY <2>1, Moves DEF Apart, Left
  <2>3. AppendInv(q) /\ messages \in Seq([position : Nat, since : Nat])
    BY DEF OrderInv
  <2>4. Len(messages') = Len(messages) + 1 /\ \A i \in 1..Len(messages) : messages'[i] = messages[i]
    BY <1>1, AppendStep
  <2>5. Len(messages) \in Nat
    BY <2>3
  <2> QED BY <2>2, <2>3, <2>4, <2>5 DEF AppendInv
<1>2. CASE ~CommitAppend(p)
  <2>1. messages' = messages
    BY <1>2, Writers
  <2> SUFFICES ASSUME NEW q \in Procs, req'[q].kind = "append", todo'[q] # <<>>
               PROVE  /\ mem'[q].since \in 0..Len(messages)
                      /\ Left(q)' = 1 =>
                           /\ mem'[q].top \in Nat
                           /\ \A i \in 1..mem'[q].since : messages[i].position < mem'[q].top
    BY <2>1 DEF OrderInv, AppendInv, MessagesKeepOrder
  <2>2. messages \in Seq([position : Nat, since : Nat]) /\ Len(messages) \in Nat /\ DOMAIN messages = 1..Len(messages)
    BY DEF OrderInv
  <2>3. CASE q # p
    <3>1. req'[q] = req[q] /\ todo'[q] = todo[q] /\ mem'[q] = mem[q] /\ Left(q)' = Left(q)
      BY <2>3, Moves DEF Apart, Left
    <3> QED BY <3>1 DEF OrderInv, AppendInv
  <2>4. CASE q = p /\ Begins(p)
    <3>1. todo'[p] = <<"conversation", "position", "commit">>
      BY <2>4 DEF Begins, Steps
    <3>2. Left(p)' = 3
      BY <3>1 DEF Left
    <3>3. Start(p)
      <4>1. todo[p] = <<>>
        BY <2>4 DEF Begins
      <4> QED BY <4>1 DEF Step, At, Abandon, ReadReport, LoadReport, LoadSection, LookAgain, FlushDelete,
                          ReadOrder, ReadSources, ReadSource, ReadMessage, ReadConversation, ReadPosition,
                          ReadLedger, CommitCreate, CommitUpdate, CommitDelete, CommitInsert, CommitAnswer,
                          CommitWithdraw, CommitRescope, CommitRebind, CommitAppend, Record
    <3>4. mem'[p].since = Len(messages)
      BY <3>3 DEF Start, ShapeInv, Blank
    <3> QED BY <2>2, <2>4, <3>2, <3>4
  <2>5. CASE q = p /\ Looks(p)
    <3>1. /\ req[p].kind = "append" /\ todo[p] # <<>> /\ req'[p] = req[p] /\ Left(p)' = Left(p) - 1
          /\ Head(todo[p]) # "commit"
      BY <2>5, LeftAfter DEF Looks
    <3>2. Left(p) \in {2, 3} /\ mem[p].since \in 0..Len(messages)
      BY <3>1, MessagePlace DEF OrderInv, AppendInv
    <3>3. CASE Left(p) = 3
      <4>1. ReadConversation(p)
        BY <2>5, <3>1, <3>3, MessagePlace, Labels
      <4>2. mem'[p].since = mem[p].since
        BY <4>1 DEF ReadConversation, Reads, ShapeInv, Blank
      <4> QED BY <2>5, <3>1, <3>2, <3>3, <4>2
    <3>4. CASE Left(p) = 2
      <4>1. ReadPosition(p)
        BY <2>5, <3>1, <3>4, MessagePlace, Labels
      <4>2. mem'[p].since = mem[p].since /\ mem'[p].top = NextPosition
        BY <4>1 DEF ReadPosition, Reads, ShapeInv, Blank
      <4>3. NextPosition \in Nat /\ \A i \in DOMAIN messages : messages[i].position < NextPosition
        BY NextPositionAbove
      <4>4. \A i \in 1..mem[p].since : i \in DOMAIN messages
        BY <2>2, <3>2
      <4>5. \A i \in 1..mem'[p].since : messages[i].position < mem'[p].top
        BY <4>2, <4>3, <4>4
      <4> QED BY <2>5, <3>2, <4>2, <4>3, <4>5
    <3> QED BY <3>2, <3>3, <3>4
  <2>6. CASE q = p /\ Stops(p)
    BY <2>6 DEF Stops
  <2> QED BY <2>3, <2>4, <2>5, <2>6, Moves
<1> QED BY <1>1, <1>2
-----------------------------------------------------------------------------
(* Sources hold *)

\* A creation that has a section to bring; a request that has read a section to add to;
\* one that has read the report; a change of the report that has checked the sources.
Bringing(p) == req[p].kind = "create" /\ todo[p] # <<>> /\ Left(p) <= 2
Adding(p) == /\ todo[p] # <<>>
             /\ (req[p].kind = "insert" /\ Left(p) <= 1) \/ (req[p].kind = "answer" /\ Left(p) <= 5)
Scoped(p) == /\ todo[p] # <<>>
             /\ (req[p].kind \in {"insert", "rescope"} /\ Left(p) <= 2) \/ (req[p].kind = "answer" /\ Left(p) <= 6)
Checked(p) == req[p].kind = "rescope" /\ todo[p] # <<>> /\ Left(p) = 1

\* The texts of a section have their sources there, unless they were withdrawn.
Sourced(s, quotes) == \A i \in quotes \ withdrawn : \E source \in sources : source.id = i /\ source.section = s

\* A section that is still to come is a new one: nobody who has read a section means it.
NewInv ==
    /\ born \in Nat /\ DOMAIN sections \subseteq 1..born
    /\ \A p \in Procs : Bringing(p) => mem[p].self \in 1..born /\ mem[p].self \notin DOMAIN sections
    /\ \A p, q \in Procs : p # q /\ Bringing(p) /\ Bringing(q) => mem[p].self # mem[q].self
    /\ \A q \in Procs : Adding(q) =>
         /\ req[q].section \in 1..born
         /\ \A p \in Procs : Bringing(p) => mem[p].self # req[q].section

\* The texts that were read with a section have their sources, as long as it is there.
ReadInv ==
    \A q \in Procs : Adding(q) /\ req[q].section \in DOMAIN sections =>
        Sourced(req[q].section, mem[q].row.quotes)

\* What was read of the report and of its sources still holds unless others have written.
ScopeInv ==
    \A p \in Procs :
        /\ Scoped(p) /\ "scope" \notin span[p] => mem[p].scope = scope
        /\ Checked(p) /\ "sources" \notin span[p] => InScope(req[p].kb)

RowsInv == \A s \in DOMAIN sections : DOMAIN sections[s] = DOMAIN NewRow(0)

SourcesInv == NewInv /\ ReadInv /\ ScopeInv /\ RowsInv /\ SourcesHold

\* What a step does to the sections.
LEMMA SectionRows ==
    ASSUME RowsInv, NEW p \in Procs, Step(p)
    PROVE  /\ RowsInv'
           /\ \A s \in DOMAIN sections' :
                /\ s \in DOMAIN sections \/ (CommitCreate(p) /\ s = mem[p].self)
                /\ \/ sections'[s].quotes = {}
                   \/ s \in DOMAIN sections /\ sections'[s].quotes = sections[s].quotes
                   \/ /\ CommitInsert(p) \/ CommitAnswer(p)
                      /\ s = req[p].section
                      /\ sections'[s].quotes = mem[p].row.quotes \cup {mem[p].serial}
           /\ \A s \in DOMAIN sections : s \in DOMAIN sections' \/ (CommitDelete(p) /\ s = req[p].section)
           /\ CommitDelete(p) => req[p].section \notin DOMAIN sections'
<1>1. \A s \in DOMAIN sections : /\ DOMAIN Renumbered(p, s) = DOMAIN NewRow(0)
                                 /\ Renumbered(p, s).quotes = sections[s].quotes
  BY DEF Renumbered, RowsInv, NewRow
<1>2. \A x : DOMAIN NewRow(x) = DOMAIN NewRow(0) /\ NewRow(x).quotes = {}
  BY DEF NewRow
<1>3. CASE CommitCreate(p)
  <2>1. /\ DOMAIN sections' = DOMAIN sections \cup {mem[p].self}
        /\ \A s \in DOMAIN sections' :
             sections'[s] = IF s = mem[p].self THEN NewRow(Place(p, s)) ELSE Renumbered(p, s)
    BY <1>3 DEF CommitCreate
  <2>2. ~CommitDelete(p)
    BY <1>3 DEF CommitCreate, CommitDelete, At
  <2> QED BY <1>1, <1>2, <1>3, <2>1, <2>2 DEF RowsInv
<1>4. CASE CommitUpdate(p)
  <2> DEFINE renumbered == IF req[p].position # Stay THEN [t \in DOMAIN sections |-> Renumbered(p, t)] ELSE sections
  <2>1. /\ sections' = IF req[p].rewrites THEN [renumbered EXCEPT ![req[p].section].quotes = {}] ELSE renumbered
    BY <1>4 DEF CommitUpdate
  <2>2. /\ DOMAIN renumbered = DOMAIN sections
        /\ \A s \in DOMAIN sections : /\ DOMAIN renumbered[s] = DOMAIN NewRow(0)
                                      /\ renumbered[s].quotes = sections[s].quotes
    BY <1>1 DEF RowsInv
  <2>3. ~CommitDelete(p)
    BY <1>4 DEF CommitUpdate, CommitDelete, At
  <2> HIDE DEF renumbered
  <2>4. /\ DOMAIN sections' = DOMAIN sections
        /\ \A s \in DOMAIN sections :
             /\ DOMAIN sections'[s] = DOMAIN NewRow(0)
             /\ sections'[s].quotes = {} \/ sections'[s].quotes = sections[s].quotes
    <3>1. CASE req[p].rewrites
      BY <2>1, <2>2, <3>1 DEF NewRow
    <3>2. CASE ~req[p].rewrites
      BY <2>1, <2>2, <3>2
    <3> QED BY <3>1, <3>2
  <2> QED BY <2>3, <2>4 DEF RowsInv
<1>5. CASE CommitDelete(p)
  <2>1. sections' = [s \in DOMAIN sections \ {req[p].section} |-> Renumbered(p, s)]
    BY <1>5 DEF CommitDelete
  <2> QED BY <1>1, <1>5, <2>1 DEF RowsInv
<1>6. CASE CommitInsert(p) \/ CommitAnswer(p)
  <2>1. \E text \in BOOLEAN :
          /\ req[p].section \in DOMAIN sections
          /\ sections' = IF text THEN [sections EXCEPT ![req[p].section].quotes = mem[p].row.quotes \cup {mem[p].serial}]
                         ELSE sections
    <3>1. CASE CommitAnswer(p)
      BY <3>1 DEF CommitAnswer, Inserts, Writes
    <3>2. CASE CommitInsert(p)
      BY <3>2 DEF CommitInsert, Inserts, Writes
    <3> QED BY <1>6, <3>1, <3>2
  <2>2. ~CommitDelete(p)
    BY <1>6 DEF CommitInsert, CommitAnswer, CommitDelete, At
  <2> QED BY <1>6, <2>1, <2>2 DEF RowsInv, NewRow
<1>7. CASE sections' = sections
  <2>1. CASE CommitDelete(p)
    BY <1>5, <2>1
  <2> QED BY <1>7, <2>1 DEF RowsInv
<1> QED BY <1>3, <1>4, <1>5, <1>6, <1>7, Writers

\* What a step does to the sources.
LEMMA SourceRows ==
    ASSUME NEW p \in Procs, Step(p)
    PROVE  /\ withdrawn \subseteq withdrawn'
           /\ \A s \in sources : \/ s \in sources'
                                 \/ CommitDelete(p) /\ s.section = req[p].section
                                 \/ s.id \in withdrawn'
           /\ \A s \in sources' : \/ s \in sources
                                  \/ /\ CommitInsert(p) \/ CommitAnswer(p)
                                     /\ s.section = req[p].section /\ s.kb = mem[p].scope /\ s.id = mem[p].serial
           /\ CommitDelete(p) => \A s \in sources' : s.section # req[p].section
           /\ CommitInsert(p) \/ CommitAnswer(p) =>
                /\ [id |-> mem[p].serial, section |-> req[p].section, kb |-> mem[p].scope] \in sources'
                /\ req[p].section \in DOMAIN sections /\ skewed' = (skewed \/ "scope" \in span[p])
                /\ \A q \in Procs \ {p} : todo[q] # <<>> => "sources" \in span'[q]
<1>1. CASE CommitInsert(p) \/ CommitAnswer(p)
  <2>1. /\ sources' = sources \cup {[id |-> mem[p].serial, section |-> req[p].section, kb |-> mem[p].scope]}
        /\ req[p].section \in DOMAIN sections /\ skewed' = (skewed \/ "scope" \in span[p])
        /\ UNCHANGED withdrawn /\ Ends(p, {"sources"})
    BY <1>1 DEF CommitInsert, CommitAnswer, Inserts, Writes
  <2>2. \A q \in Procs \ {p} : todo[q] # <<>> => "sources" \in span'[q]
    BY <2>1 DEF Ends
  <2>3. ~CommitDelete(p)
    BY <1>1 DEF CommitInsert, CommitAnswer, CommitDelete, At
  <2> QED BY <1>1, <2>1, <2>2, <2>3
<1>2. CASE CommitDelete(p)
  <2>1. ~CommitInsert(p) /\ ~CommitAnswer(p)
    BY <1>2 DEF CommitInsert, CommitAnswer, CommitDelete, At
  <2>2. sources' = {s \in sources : s.section # req[p].section} /\ UNCHANGED withdrawn
    BY <1>2 DEF CommitDelete
  <2> QED BY <1>2, <2>1, <2>2
<1>3. CASE CommitWithdraw(p)
  <2>1. ~CommitInsert(p) /\ ~CommitAnswer(p) /\ ~CommitDelete(p)
    BY <1>3 DEF CommitInsert, CommitAnswer, CommitDelete, CommitWithdraw, At
  <2>2. sources' = {s \in sources : s.id # req[p].source} /\ withdrawn' = withdrawn \cup {req[p].source}
    BY <1>3 DEF CommitWithdraw
  <2> QED BY <2>1, <2>2
<1>4. CASE ~CommitInsert(p) /\ ~CommitAnswer(p) /\ ~CommitDelete(p) /\ ~CommitWithdraw(p)
  BY <1>4, Writers
<1> QED BY <1>1, <1>2, <1>3, <1>4

\* Who has a section to bring had it before, or has just got a new one.
LEMMA BringingStep ==
    ASSUME ShapeInv, ControlInv, NEW p \in Procs, Step(p), NEW q \in Procs, Bringing(q)'
    PROVE  \/ Bringing(q) /\ mem'[q].self = mem[q].self
           \/ q = p /\ ReadReport(p) /\ mem'[p].self = born + 1 /\ born' = born + 1
<1>1. CASE q # p
  BY <1>1, Moves DEF Apart, Bringing, Left
<1>2. CASE q = p /\ Begins(p)
  <2>1. todo'[p] = <<"report", "order", "commit">>
    BY <1>2 DEF Begins, Steps, Bringing
  <2>2. Left(p)' = 3
    BY <2>1 DEF Left
  <2> QED BY <1>2, <2>2 DEF Bringing
<1>3. CASE q = p /\ Looks(p)
  <2>1. /\ req[p].kind = "create" /\ todo[p] # <<>> /\ Left(p)' = Left(p) - 1 /\ Head(todo[p]) # "commit"
    BY <1>3, LeftAfter DEF Looks, Bringing
  <2>2. Left(p) \in {2, 3}
    BY <2>1, CreationPlace
  <2>3. CASE Left(p) = 3
    <3>1. ReadReport(p)
      BY <1>3, <2>1, <2>3, CreationPlace, Labels DEF LoadReport, At
    <3> QED BY <1>3, <3>1 DEF ReadReport, ShapeInv, Blank
  <2>4. CASE Left(p) = 2
    <3>1. ReadOrder(p)
      BY <1>3, <2>1, <2>4, CreationPlace, Labels
    <3>2. mem'[p].self = mem[p].self
      BY <3>1 DEF ReadOrder, Reads, ShapeInv, Blank
    <3> QED BY <1>3, <2>1, <2>4, <3>2 DEF Bringing
  <2> QED BY <2>2, <2>3, <2>4
<1>4. CASE q = p /\ Stops(p)
  BY <1>4 DEF Stops, Bringing
<1> QED BY <1>1, <1>2, <1>3, <1>4, Moves

\* Who has read a section had read it before, or has just read it.
LEMMA AddingStep ==
    ASSUME ShapeInv, ControlInv, NEW p \in Procs, Step(p), NEW q \in Procs, Adding(q)'
    PROVE  /\ req'[q] = req[q]
           /\ \/ Adding(q) /\ mem'[q].row = mem[q].row
              \/ /\ q = p /\ LoadSection(p) /\ UNCHANGED <<stores, history>>
                 /\ req[p].section \in DOMAIN sections /\ mem'[p].row = sections[req[p].section]
<1>1. CASE q # p
  BY <1>1, Moves DEF Apart, Adding, Left
<1>2. CASE q = p /\ Begins(p)
  <2>1. CASE req'[p].kind = "insert"
    <3>1. todo'[p] = <<"report", "section", "commit">>
      BY <1>2, <2>1 DEF Begins, Steps
    <3>2. Left(p)' = 3
      BY <3>1 DEF Left
    <3> QED BY <1>2, <2>1, <3>2 DEF Adding
  <2>2. CASE req'[p].kind = "answer"
    <3>1. todo'[p] = <<"report", "section", "message", "conversation", "ledger", "again", "commit">>
      BY <1>2, <2>2 DEF Begins, Steps
    <3>2. Left(p)' = 7
      BY <3>1 DEF Left
    <3> QED BY <1>2, <2>2, <3>2 DEF Adding
  <2> QED BY <1>2, <2>1, <2>2 DEF Adding
<1>3. CASE q = p /\ Looks(p)
  <2>1. /\ todo[p] # <<>> /\ Left(p)' = Left(p) - 1 /\ Head(todo[p]) # "commit" /\ req'[p] = req[p]
        /\ UNCHANGED <<stores, history>>
    BY <1>3, LeftAfter, Labels DEF Looks
  <2>2. ASSUME LoadSection(p) PROVE req[p].section \in DOMAIN sections /\ mem'[p].row = sections[req[p].section]
    BY <2>2 DEF LoadSection, Reads, ShapeInv, Blank
  <2>3. CASE req[p].kind = "insert"
    <3>1. Left(p) = 2
      <4>1. Left(p) \in {2, 3} /\ Left(p)' <= 1
        BY <1>3, <2>1, <2>3, InsertionPlace DEF Adding
      <4> QED BY <2>1, <4>1
    <3>2. LoadSection(p)
      BY <1>3, <2>1, <2>3, <3>1, InsertionPlace, Labels
    <3> QED BY <1>3, <2>1, <2>2, <3>2
  <2>4. CASE req[p].kind = "answer"
    <3>1. Left(p) \in {2, 3, 4, 5, 6}
      <4>1. Left(p) \in 1..7 /\ Left(p) # 1 /\ Left(p)' <= 5
        BY <1>3, <2>1, <2>4, AnswerPlace DEF Adding
      <4> QED BY <2>1, <4>1
    <3>2. CASE Left(p) = 6
      <4>1. LoadSection(p)
        BY <1>3, <2>1, <2>4, <3>2, AnswerPlace, Labels
      <4> QED BY <1>3, <2>1, <2>2, <4>1
    <3>3. CASE Left(p) \in {2, 3, 4, 5}
      <4>1. ReadMessage(p) \/ ReadConversation(p) \/ ReadLedger(p) \/ LookAgain(p)
        BY <1>3, <2>1, <2>4, <3>3, AnswerPlace, Labels
      <4>2. mem'[p].row = mem[p].row
        BY <4>1 DEF ReadMessage, ReadConversation, ReadLedger, LookAgain, Reads, ShapeInv, Blank
      <4> QED BY <1>3, <2>1, <2>4, <3>3, <4>2 DEF Adding
    <3> QED BY <3>1, <3>2, <3>3
  <2> QED BY <1>3, <2>1, <2>3, <2>4 DEF Adding
<1>4. CASE q = p /\ Stops(p)
  BY <1>4 DEF Stops, Adding
<1> QED BY <1>1, <1>2, <1>3, <1>4, Moves

\* Who has read the report had read it before, or has just read it.
LEMMA ScopedStep ==
    ASSUME ShapeInv, ControlInv, NEW p \in Procs, Step(p), NEW q \in Procs, Scoped(q)'
    PROVE  \/ Scoped(q) /\ mem'[q].scope = mem[q].scope /\ span[q] \subseteq span'[q]
           \/ q = p /\ mem'[p].scope = scope /\ scope' = scope
<1>1. CASE q # p
  BY <1>1, Moves DEF Apart, Scoped, Left
<1>2. CASE q = p /\ Begins(p)
  <2>1. CASE req'[p].kind = "insert"
    <3>1. todo'[p] = <<"report", "section", "commit">>
      BY <1>2, <2>1 DEF Begins, Steps
    <3>2. Left(p)' = 3
      BY <3>1 DEF Left
    <3> QED BY <1>2, <2>1, <3>2 DEF Scoped
  <2>2. CASE req'[p].kind = "answer"
    <3>1. todo'[p] = <<"report", "section", "message", "conversation", "ledger", "again", "commit">>
      BY <1>2, <2>2 DEF Begins, Steps
    <3>2. Left(p)' = 7
      BY <3>1 DEF Left
    <3> QED BY <1>2, <2>2, <3>2 DEF Scoped
  <2>3. CASE req'[p].kind = "rescope"
    <3>1. todo'[p] = <<"report", "sources", "commit">>
      BY <1>2, <2>3 DEF Begins, Steps
    <3>2. Left(p)' = 3
      BY <3>1 DEF Left
    <3> QED BY <1>2, <2>3, <3>2 DEF Scoped
  <2> QED BY <1>2, <2>1, <2>2, <2>3 DEF Scoped
<1>3. CASE q = p /\ Looks(p)
  <2>1. /\ todo[p] # <<>> /\ Left(p)' = Left(p) - 1 /\ Head(todo[p]) # "commit" /\ req'[p] = req[p]
        /\ scope' = scope /\ span' = span
    BY <1>3, LeftAfter, Labels DEF Looks, stores
  <2>2. ASSUME LoadReport(p) PROVE mem'[p].scope = scope
    BY <2>2 DEF LoadReport, Reads, ShapeInv, Blank
  <2>3. CASE req[p].kind \in {"insert", "rescope"}
    <3>1. Left(p) \in {2, 3} /\ (Left(p) = 3 <=> Head(todo[p]) = "report")
                             /\ (Left(p) = 2 => Head(todo[p]) \in {"section", "sources"})
      BY <2>1, <2>3, InsertionPlace, ChangePlace
    <3>2. CASE Left(p) = 3
      <4>1. LoadReport(p)
        BY <1>3, <2>3, <3>1, <3>2, Labels DEF ReadReport, At
      <4> QED BY <1>3, <2>1, <2>2, <4>1
    <3>3. CASE Left(p) = 2
      <4>1. LoadSection(p) \/ ReadSources(p)
        BY <1>3, <3>1, <3>3, Labels
      <4>2. mem'[p].scope = mem[p].scope
        BY <4>1 DEF LoadSection, ReadSources, Reads, ShapeInv, Blank
      <4> QED BY <1>3, <2>1, <2>3, <3>3, <4>2 DEF Scoped
    <3> QED BY <3>1, <3>2, <3>3
  <2>4. CASE req[p].kind = "answer"
    <3>1. Left(p) \in {2, 3, 4, 5, 6, 7}
      BY <2>1, <2>4, AnswerPlace
    <3>2. CASE Left(p) = 7
      <4>1. LoadReport(p)
        BY <1>3, <2>1, <2>4, <3>2, AnswerPlace, Labels DEF ReadReport, At
      <4> QED BY <1>3, <2>1, <2>2, <4>1
    <3>3. CASE Left(p) \in {2, 3, 4, 5, 6}
      <4>1. LoadSection(p) \/ ReadMessage(p) \/ ReadConversation(p) \/ ReadLedger(p) \/ LookAgain(p)
        BY <1>3, <2>1, <2>4, <3>3, AnswerPlace, Labels
      <4>2. mem'[p].scope = mem[p].scope
        BY <4>1 DEF LoadSection, ReadMessage, ReadConversation, ReadLedger, LookAgain, Reads, ShapeInv, Blank
      <4> QED BY <1>3, <2>1, <2>4, <3>3, <4>2 DEF Scoped
    <3> QED BY <3>1, <3>2, <3>3
  <2> QED BY <1>3, <2>1, <2>3, <2>4 DEF Scoped
<1>4. CASE q = p /\ Stops(p)
  BY <1>4 DEF Stops, Scoped
<1> QED BY <1>1, <1>2, <1>3, <1>4, Moves

\* Who has checked the sources had checked them before, or has just done so.
LEMMA CheckedStep ==
    ASSUME ShapeInv, ControlInv, NEW p \in Procs, Step(p), NEW q \in Procs, Checked(q)'
    PROVE  /\ req'[q] = req[q]
           /\ \/ q # p /\ Checked(q) /\ span[q] \subseteq span'[q]
              \/ q = p /\ InScope(req[p].kb) /\ sources' = sources
<1>1. CASE q # p
  BY <1>1, Moves DEF Apart, Checked, Left
<1>2. CASE q = p /\ Begins(p)
  <2>1. todo'[p] = <<"report", "sources", "commit">>
    BY <1>2 DEF Begins, Steps, Checked
  <2>2. Left(p)' = 3
    BY <2>1 DEF Left
  <2> QED BY <1>2, <2>2 DEF Checked
<1>3. CASE q = p /\ Looks(p)
  <2>1. /\ req[p].kind = "rescope" /\ todo[p] # <<>> /\ Left(p)' = Left(p) - 1 /\ req'[p] = req[p]
        /\ sources' = sources
    BY <1>3, LeftAfter, Labels DEF Looks, Checked, stores
  <2>2. Left(p) = 2
    <3>1. Left(p) \in {1, 2, 3} /\ Left(p)' = 1
      BY <1>3, <2>1, ChangePlace DEF Checked
    <3> QED BY <2>1, <3>1
  <2>3. ReadSources(p)
    BY <1>3, <2>1, <2>2, ChangePlace, Labels
  <2> QED BY <1>3, <2>1, <2>3 DEF ReadSources
<1>4. CASE q = p /\ Stops(p)
  BY <1>4 DEF Stops, Checked
<1> QED BY <1>1, <1>2, <1>3, <1>4, Moves

\* Who commits has read what the commit needs.
LEMMA CommitPlaces ==
    ASSUME ShapeInv, ControlInv, NEW p \in Procs
    PROVE  /\ CommitCreate(p) => Bringing(p) /\ ~Bringing(p)'
           /\ CommitInsert(p) \/ CommitAnswer(p) => Adding(p) /\ Scoped(p)
           /\ CommitRescope(p) => Scoped(p) /\ Checked(p) /\ todo'[p] = <<>>
<1>1. ASSUME CommitCreate(p) PROVE Bringing(p) /\ ~Bringing(p)'
  <2>1. req[p].kind = "create" /\ todo[p] # <<>> /\ Head(todo[p]) = "commit" /\ todo'[p] = <<>>
    BY <1>1 DEF CommitCreate, At, Ends, ShapeInv
  <2> QED BY <2>1, CreationPlace DEF Bringing
<1>2. ASSUME CommitInsert(p) PROVE Adding(p) /\ Scoped(p)
  <2>1. req[p].kind = "insert" /\ todo[p] # <<>> /\ Head(todo[p]) = "commit"
    BY <1>2 DEF CommitInsert, At
  <2> QED BY <2>1, InsertionPlace DEF Adding, Scoped
<1>3. ASSUME CommitAnswer(p) PROVE Adding(p) /\ Scoped(p)
  <2>1. req[p].kind = "answer" /\ todo[p] # <<>> /\ Head(todo[p]) = "commit"
    BY <1>3 DEF CommitAnswer, At
  <2> QED BY <2>1, AnswerPlace DEF Adding, Scoped
<1>4. ASSUME CommitRescope(p) PROVE Scoped(p) /\ Checked(p) /\ todo'[p] = <<>>
  <2>1. req[p].kind = "rescope" /\ todo[p] # <<>> /\ Head(todo[p]) = "commit" /\ todo'[p] = <<>>
    BY <1>4 DEF CommitRescope, At, Ends, ShapeInv
  <2> QED BY <2>1, ChangePlace DEF Scoped, Checked
<1> QED BY <1>1, <1>2, <1>3, <1>4

\* A new section stays new until it is brought, and is nobody else's.
LEMMA NewStep ==
    ASSUME ShapeInv, ControlInv, NewInv, RowsInv, NEW p \in Procs, Step(p)
    PROVE  NewInv'
<1>1. born \in Nat /\ born' \in {born, born + 1}
  <2>1. ReadReport(p) => born' = born + 1
    BY DEF ReadReport
  <2> QED BY <2>1, Writers DEF NewInv
<1>2. ReadReport(p) => sections' = sections
  BY DEF ReadReport, stores
<1>3. DOMAIN sections' \subseteq 1..born'
  <2> SUFFICES ASSUME NEW s \in DOMAIN sections' PROVE s \in 1..born
    BY <1>1
  <2>1. s \in DOMAIN sections \/ (CommitCreate(p) /\ s = mem[p].self)
    BY SectionRows
  <2> QED BY <2>1, CommitPlaces DEF NewInv
<1>4. ASSUME NEW q \in Procs, Bringing(q)'
      PROVE  mem'[q].self \in 1..born' /\ mem'[q].self \notin DOMAIN sections'
  <2>1. CASE Bringing(q) /\ mem'[q].self = mem[q].self
    <3>1. mem[q].self \in 1..born /\ mem[q].self \notin DOMAIN sections
      BY <2>1 DEF NewInv
    <3>2. ASSUME mem[q].self \in DOMAIN sections' PROVE FALSE
      <4>1. CommitCreate(p) /\ mem[q].self = mem[p].self
        BY <3>1, <3>2, SectionRows
      <4>2. q # p
        BY <1>4, <4>1, CommitPlaces
      <4> QED BY <2>1, <4>1, <4>2, CommitPlaces DEF NewInv
    <3> QED BY <1>1, <2>1, <3>1, <3>2
  <2>2. CASE ReadReport(p) /\ mem'[q].self = born + 1 /\ born' = born + 1
    BY <1>1, <1>2, <2>2 DEF NewInv
  <2> QED BY <1>4, <2>1, <2>2, BringingStep
<1>5. ASSUME NEW q \in Procs, NEW r \in Procs, q # r, Bringing(q)', Bringing(r)'
      PROVE  mem'[q].self # mem'[r].self
  <2>1. /\ (Bringing(q) /\ mem'[q].self = mem[q].self) \/ (q = p /\ mem'[q].self = born + 1)
        /\ (Bringing(r) /\ mem'[r].self = mem[r].self) \/ (r = p /\ mem'[r].self = born + 1)
    BY <1>5, BringingStep
  <2> QED BY <1>1, <1>5, <2>1 DEF NewInv
<1>6. ASSUME NEW q \in Procs, Adding(q)'
      PROVE  /\ req'[q].section \in 1..born'
             /\ \A r \in Procs : Bringing(r)' => mem'[r].self # req'[q].section
  <2>1. req'[q] = req[q] /\ (Adding(q) \/ (q = p /\ req[q].section \in DOMAIN sections))
    BY <1>6, AddingStep
  <2>2. req[q].section \in 1..born
    BY <2>1 DEF NewInv
  <2>3. ASSUME NEW r \in Procs, Bringing(r)' PROVE mem'[r].self # req[q].section
    <3>1. (Bringing(r) /\ mem'[r].self = mem[r].self) \/ mem'[r].self = born + 1
      BY <2>3, BringingStep
    <3> QED BY <1>1, <2>1, <2>2, <3>1 DEF NewInv
  <2> QED BY <1>1, <2>1, <2>2, <2>3
<1>7. born' \in Nat
  BY <1>1
<1> QED BY <1>3, <1>4, <1>5, <1>6, <1>7 DEF NewInv

\* Texts keep their sources as long as their section is there.
LEMMA SourcedStays ==
    ASSUME RowsInv, NEW p \in Procs, Step(p), NEW s \in DOMAIN sections', NEW Q, Sourced(s, Q)
    PROVE  \A i \in Q \ withdrawn' : \E source \in sources' : source.id = i /\ source.section = s
<1> SUFFICES ASSUME NEW i \in Q, i \notin withdrawn'
             PROVE  \E source \in sources' : source.id = i /\ source.section = s
  OBVIOUS
<1>1. i \notin withdrawn
  BY SourceRows
<1>2. PICK source \in sources : source.id = i /\ source.section = s
  BY <1>1 DEF Sourced
<1>3. source \in sources'
  BY <1>2, SourceRows, SectionRows
<1> QED BY <1>2, <1>3

LEMMA ReadStep ==
    ASSUME ShapeInv, ControlInv, SourcesInv, NEW p \in Procs, Step(p)
    PROVE  ReadInv'
<1> SUFFICES ASSUME NEW q \in Procs, Adding(q)', req'[q].section \in DOMAIN sections'
             PROVE  \A i \in mem'[q].row.quotes \ withdrawn' :
                        \E source \in sources' : source.id = i /\ source.section = req'[q].section
  BY DEF ReadInv, Sourced
<1> DEFINE s == req[q].section
<1>1. req'[q].section = s /\ s \in DOMAIN sections'
  BY AddingStep
<1>2. CASE Adding(q) /\ mem'[q].row = mem[q].row
  <2>1. s \in DOMAIN sections
    BY <1>1, <1>2, SectionRows, CommitPlaces DEF SourcesInv, NewInv
  <2>2. Sourced(s, mem[q].row.quotes)
    BY <1>2, <2>1 DEF SourcesInv, ReadInv
  <2> QED BY <1>1, <1>2, <2>2, SourcedStays DEF SourcesInv
<1>3. CASE /\ q = p /\ s \in DOMAIN sections /\ mem'[q].row = sections[s]
  <2>1. Sourced(s, sections[s].quotes)
    BY <1>3 DEF SourcesInv, SourcesHold, Sourced
  <2> QED BY <1>1, <1>3, <2>1, SourcedStays DEF SourcesInv
<1> QED BY <1>2, <1>3, AddingStep

LEMMA ScopeStep ==
    ASSUME ShapeInv, ControlInv, SourcesInv, NEW p \in Procs, Step(p)
    PROVE  ScopeInv'
<1>1. ASSUME NEW q \in Procs, Scoped(q)', "scope" \notin span'[q]
      PROVE  mem'[q].scope = scope'
  <2>1. CASE Scoped(q) /\ mem'[q].scope = mem[q].scope /\ span[q] \subseteq span'[q]
    <3>1. mem[q].scope = scope
      BY <1>1, <2>1 DEF SourcesInv, ScopeInv
    <3>2. ~CommitRescope(p)
      <4>1. ASSUME CommitRescope(p) PROVE FALSE
        <5>1. q # p
          BY <1>1, <4>1, CommitPlaces DEF Scoped
        <5>2. "scope" \in span'[q]
          BY <2>1, <4>1, <5>1 DEF CommitRescope, Ends, Scoped
        <5> QED BY <1>1, <5>2
      <4> QED BY <4>1
    <3> QED BY <2>1, <3>1, <3>2, Writers
  <2> QED BY <1>1, <2>1, ScopedStep
<1>2. ASSUME NEW q \in Procs, Checked(q)', "sources" \notin span'[q]
      PROVE  \A s \in sources' : s.kb = req'[q].kb
  <2>1. req'[q] = req[q]
    BY <1>2, CheckedStep
  <2>2. CASE q # p /\ Checked(q) /\ span[q] \subseteq span'[q]
    <3>1. InScope(req[q].kb)
      BY <1>2, <2>2 DEF SourcesInv, ScopeInv
    <3>2. \A s \in sources' : s \in sources
      BY <1>2, <2>2, SourceRows DEF Checked
    <3> QED BY <2>1, <3>1, <3>2 DEF InScope
  <2>3. CASE q = p /\ InScope(req[p].kb) /\ sources' = sources
    BY <2>1, <2>3 DEF InScope
  <2> QED BY <1>2, <2>2, <2>3, CheckedStep
<1> QED BY <1>1, <1>2 DEF ScopeInv, InScope

LEMMA SourcesHoldStep ==
    ASSUME ShapeInv, ControlInv, SourcesInv, NEW p \in Procs, Step(p)
    PROVE  SourcesHold'
<1>1. ASSUME NEW s \in sources' PROVE s.section \in DOMAIN sections'
  <2>1. CASE CommitDelete(p)
    <3>1. s \in sources /\ s.section # req[p].section
      <4>1. ~CommitInsert(p) /\ ~CommitAnswer(p)
        BY <2>1 DEF CommitInsert, CommitAnswer, CommitDelete, At
      <4> QED BY <2>1, <4>1, SourceRows
    <3> QED BY <3>1, SectionRows DEF SourcesInv, SourcesHold
  <2>2. CASE ~CommitDelete(p)
    <3>1. s.section \in DOMAIN sections
      BY SourceRows DEF SourcesInv, SourcesHold
    <3> QED BY <2>2, <3>1, SectionRows DEF SourcesInv
  <2> QED BY <2>1, <2>2
<1>2. ASSUME NEW s \in sources', ~skewed' PROVE s.kb = scope'
  <2>1. ~skewed => \A t \in sources : t.kb = scope
    BY DEF SourcesInv, SourcesHold
  <2>2. CASE CommitInsert(p) \/ CommitAnswer(p)
    <3>1. ~skewed /\ "scope" \notin span[p]
      BY <1>2, <2>2, SourceRows
    <3>2. mem[p].scope = scope
      BY <2>2, <3>1, CommitPlaces DEF SourcesInv, ScopeInv
    <3>3. scope' = scope
      BY <2>2 DEF CommitInsert, CommitAnswer, Inserts
    <3> QED BY <2>1, <3>1, <3>2, <3>3, SourceRows
  <2>3. CASE CommitRescope(p)
    <3>1. /\ scope' = IF req[p].kb # mem[p].scope THEN req[p].kb ELSE scope
          /\ "sources" \notin span[p] /\ ~(skewed /\ "scope" \in span[p]) /\ sources' = sources
      BY <1>2, <2>3 DEF CommitRescope
    <3>2. s.kb = req[p].kb
      BY <2>3, <3>1, CommitPlaces DEF SourcesInv, ScopeInv, InScope
    <3>3. CASE req[p].kb = mem[p].scope /\ "scope" \notin span[p]
      BY <2>3, <3>1, <3>2, <3>3, CommitPlaces DEF SourcesInv, ScopeInv
    <3>4. CASE req[p].kb = mem[p].scope /\ "scope" \in span[p]
      BY <2>1, <3>1, <3>4
    <3> QED BY <3>1, <3>2, <3>3, <3>4
  <2>4. CASE ~CommitInsert(p) /\ ~CommitAnswer(p) /\ ~CommitRescope(p)
    <3>1. scope' = scope /\ skewed' = skewed /\ s \in sources
      BY <2>4, Writers, SourceRows
    <3> QED BY <1>2, <2>1, <3>1
  <2> QED BY <2>2, <2>3, <2>4
<1>3. ASSUME NEW s \in DOMAIN sections', NEW i \in sections'[s].quotes \ withdrawn'
      PROVE  \E source \in sources' : source.id = i /\ source.section = s
  <2>1. CASE s \in DOMAIN sections /\ sections'[s].quotes = sections[s].quotes
    <3>1. Sourced(s, sections[s].quotes)
      BY <2>1 DEF SourcesInv, SourcesHold, Sourced
    <3> QED BY <1>3, <2>1, <3>1, SourcedStays DEF SourcesInv
  <2>2. CASE /\ CommitInsert(p) \/ CommitAnswer(p)
             /\ s = req[p].section
             /\ sections'[s].quotes = mem[p].row.quotes \cup {mem[p].serial}
    <3>1. Sourced(s, mem[p].row.quotes)
      BY <2>2, CommitPlaces, SourceRows DEF SourcesInv, ReadInv
    <3>2. CASE i \in mem[p].row.quotes
      BY <1>3, <3>1, <3>2, SourcedStays DEF SourcesInv
    <3>3. CASE i = mem[p].serial
      <4> DEFINE new == [id |-> mem[p].serial, section |-> req[p].section, kb |-> mem[p].scope]
      <4>1. new \in sources' /\ new.id = i /\ new.section = s
        BY <2>2, <3>3, SourceRows
      <4> QED BY <4>1
    <3> QED BY <1>3, <2>2, <3>2, <3>3
  <2> QED BY <1>3, <2>1, <2>2, SectionRows DEF SourcesInv
<1> QED BY <1>1, <1>2, <1>3 DEF SourcesHold

LEMMA SourcesStep ==
    ASSUME ShapeInv, ControlInv, SourcesInv, NEW p \in Procs, Step(p)
    PROVE  SourcesInv'
<1>1. RowsInv /\ NewInv
  BY DEF SourcesInv
<1> QED BY <1>1, NewStep, ReadStep, ScopeStep, SectionRows, SourcesHoldStep DEF SourcesInv
-----------------------------------------------------------------------------
(* The order of the sections *)

\* q has every element of S, and each once.
Listing(q, S) ==
    /\ q \in Seq(S)
    /\ \A i, j \in 1..Len(q) : q[i] = q[j] => i = j
    /\ \A s \in S : \E i \in 1..Len(q) : q[i] = s

\* How many come before a section tells where it stands: the ranks are 0, 1, 2, ...
LEMMA RanksOfSet ==
    ASSUME NEW ids, IsFiniteSet(ids), ids \subseteq Nat, \A s \in ids : sections[s].position \in Int
    PROVE  LET rank(s) == Cardinality({t \in ids : Before(t, s)})
           IN  /\ Cardinality(ids) \in Nat
               /\ \A s \in ids : rank(s) \in 0..(Cardinality(ids) - 1)
               /\ \A s, t \in ids : rank(s) = rank(t) => s = t
               /\ \A r \in 0..(Cardinality(ids) - 1) : \E s \in ids : rank(s) = r
<1>0. \A s \in ids : s \in Int /\ sections[s].position \in Int
  <2>1. \A s \in ids : s \in Int
    OBVIOUS
  <2> QED BY <2>1, Zenon
<1> DEFINE rank(s) == Cardinality({t \in ids : Before(t, s)})
<1> DEFINE n == Cardinality(ids)
<1>1. n \in Nat
  BY FS_CardinalityType
<1>2. ASSUME NEW s \in ids PROVE rank(s) \in 0..(n - 1)
  <2>0. ~Before(s, s)
    <3>1. s \in Int /\ sections[s].position \in Int
      BY <1>0
    <3> QED BY <3>1 DEF Before
  <2>1. {t \in ids : Before(t, s)} \in SUBSET (ids \ {s})
    BY <2>0
  <2>2. IsFiniteSet(ids \ {s}) /\ Cardinality(ids \ {s}) = n - 1
    BY FS_RemoveElement
  <2>3. IsFiniteSet({t \in ids : Before(t, s)}) /\ rank(s) <= n - 1
    BY <2>1, <2>2, FS_Subset
  <2> QED BY <1>1, <2>3, FS_CardinalityType
<1>3. ASSUME NEW s \in ids, NEW t \in ids, Before(s, t) PROVE rank(s) < rank(t)
  <2> DEFINE S == {u \in ids : Before(u, s)}
  <2> DEFINE T == {u \in ids : Before(u, t)}
  <2>1. s \in T /\ s \notin S
    BY <1>0, <1>3 DEF Before
  <2>5. ASSUME NEW u \in ids, Before(u, s) PROVE Before(u, t)
    BY <1>0, <1>3, <2>5 DEF Before
  <2>6. S \in SUBSET T
    BY <2>5
  <2>2. IsFiniteSet(T)
    BY FS_Subset
  <2>3. Cardinality(S) <= Cardinality(T) /\ Cardinality(S) # Cardinality(T)
    BY <2>1, <2>2, <2>6, FS_Subset
  <2>4. rank(s) \in Int /\ rank(t) \in Int
    BY <1>1, <1>2
  <2> QED BY <2>3, <2>4
<1>4. ASSUME NEW s \in ids, NEW t \in ids, rank(s) = rank(t) PROVE s = t
  <2>1. s = t \/ Before(s, t) \/ Before(t, s)
    <3>1. s \in Int /\ t \in Int /\ sections[s].position \in Int /\ sections[t].position \in Int
      BY <1>0
    <3> QED BY <3>1 DEF Before
  <2>2. rank(s) \in Int /\ rank(t) \in Int
    BY <1>1, <1>2
  <2> HIDE DEF rank
  <2> QED BY <1>3, <1>4, <2>1, <2>2
<1>5. ASSUME NEW r \in 0..(n - 1) PROVE \E s \in ids : rank(s) = r
  <2> DEFINE f == [s \in ids |-> rank(s)]
  <2> HIDE DEF rank, n
  <2>1. f \in Injection(ids, 0..(n - 1))
    BY <1>2, <1>4 DEF Injection, IsInjective
  <2>2. IsFiniteSet(0..(n - 1)) /\ Cardinality(0..(n - 1)) = n
    BY <1>1, FS_Interval
  <2>3. f \in Surjection(ids, 0..(n - 1))
    BY <2>1, <2>2, FS_Injection DEF n
  <2> QED BY <2>3 DEF Surjection
<1> QED BY <1>1, <1>2, <1>4, <1>5

LEMMA OrderedListing ==
    ASSUME NEW ids, IsFiniteSet(ids), ids \subseteq Nat, \A s \in ids : sections[s].position \in Int
    PROVE  Listing(Ordered(ids), ids)
<1> DEFINE rank(s) == Cardinality({t \in ids : Before(t, s)})
<1> DEFINE n == Cardinality(ids)
<1> DEFINE q == [i \in 1..n |-> CHOOSE s \in ids : rank(s) = i - 1]
<1>1. /\ n \in Nat
      /\ \A s \in ids : rank(s) \in 0..(n - 1)
      /\ \A s, t \in ids : rank(s) = rank(t) => s = t
      /\ \A r \in 0..(n - 1) : \E s \in ids : rank(s) = r
  BY RanksOfSet
<1>2. Ordered(ids) = q
  BY DEF Ordered
<1> HIDE DEF n, rank
<1>3. ASSUME NEW i \in 1..n PROVE q[i] \in ids /\ rank(q[i]) = i - 1
  <2>1. i - 1 \in 0..(n - 1)
    BY <1>1
  <2> QED BY <1>1, <2>1
<1>4. q \in [1..n -> ids]
  BY <1>3
<1> HIDE DEF q
<1>5. q \in Seq(ids) /\ Len(q) = n
  BY <1>1, <1>4
<1>6. \A i, j \in 1..n : q[i] = q[j] => i = j
  BY <1>1, <1>3
<1>7. ASSUME NEW s \in ids PROVE \E i \in 1..n : q[i] = s
  <2>1. rank(s) + 1 \in 1..n /\ rank(s) \in Int
    BY <1>1
  <2>2. q[rank(s) + 1] \in ids /\ rank(q[rank(s) + 1]) = rank(s) + 1 - 1
    BY <1>3, <2>1
  <2>3. q[rank(s) + 1] = s
    <3>1. rank(q[rank(s) + 1]) = rank(s)
      BY <2>1, <2>2
    <3> QED BY <1>1, <2>2, <3>1
  <2> QED BY <2>1, <2>3
<1> QED BY <1>2, <1>5, <1>6, <1>7 DEF Listing

\* Taking an element out of a list, putting one in, and what a list says of its set.
LEMMA RemoveListing ==
    ASSUME NEW S, NEW q, Listing(q, S), NEW e
    PROVE  Listing(RemoveFirst(q, e), S \ {e})
<1>1. /\ q \in Seq(S) /\ Len(q) \in Nat /\ \A i \in 1..Len(q) : q[i] \in S
      /\ \A i, j \in 1..Len(q) : q[i] = q[j] => i = j
      /\ \A s \in S : \E i \in 1..Len(q) : q[i] = s
  BY LenProperties, ElementOfSeq DEF Listing
<1>2. CASE e \notin S
  <2>1. RemoveFirst(q, e) = q
    BY <1>1, <1>2 DEF RemoveFirst
  <2>2. S \ {e} = S
    BY <1>2
  <2> QED BY <2>1, <2>2
<1>3. CASE e \in S
  <2> DEFINE n == Len(q)
  <2>1. PICK k \in 1..n : q[k] = e
    BY <1>1, <1>3
  <2>2. SelectInSeq(q, LAMBDA v : v = e) = k
    <3>1. {i \in 1..n : q[i] = e} = {k}
      BY <1>1, <2>1
    <3>2. Min({k}) = k
      BY <2>1 DEF Min
    <3> QED BY <3>1, <3>2 DEF SelectInSeq
  <2> DEFINE a == SubSeq(q, 1, k - 1)
  <2> DEFINE b == SubSeq(q, k + 1, n)
  <2> DEFINE r == a \o b
  <2>3. RemoveFirst(q, e) = r
    BY <2>1, <2>2 DEF RemoveFirst, RemoveAt
  <2>4. /\ a \in Seq(S) /\ Len(a) = k - 1
        /\ \A i \in 1..(k - 1) : a[i] = q[i]
    <3>1. \A i \in 1..(k - 1) : q[i] \in S
      BY <1>1, <2>1
    <3> QED BY <1>1, <2>1, <3>1, SubSeqProperties
  <2>5. /\ b \in Seq(S) /\ Len(b) = n - k
        /\ \A i \in 1..(n - k) : b[i] = q[k + i]
    <3>1. \A i \in (k + 1)..n : q[i] \in S
      BY <1>1, <2>1
    <3>2. /\ b \in Seq(S) /\ Len(b) = IF k + 1 <= n THEN n - (k + 1) + 1 ELSE 0
          /\ \A i \in 1..(n - (k + 1) + 1) : b[i] = q[(k + 1) + i - 1]
      BY <1>1, <2>1, <3>1, SubSeqProperties
    <3> QED BY <1>1, <2>1, <3>2
  <2> HIDE DEF a, b
  <2>6. /\ r \in Seq(S) /\ Len(r) = n - 1
        /\ \A i \in 1..(n - 1) : r[i] = IF i <= k - 1 THEN a[i] ELSE b[i - (k - 1)]
    <3>1. (k - 1) + (n - k) = n - 1
      BY <1>1, <2>1
    <3>2. /\ r \in Seq(S) /\ Len(r) = Len(a) + Len(b)
          /\ \A i \in 1..(Len(a) + Len(b)) : r[i] = IF i <= Len(a) THEN a[i] ELSE b[i - Len(a)]
      BY <2>4, <2>5, ConcatProperties
    <3> QED BY <2>4, <2>5, <3>1, <3>2
  <2> HIDE DEF r
  <2>7. \A i \in 1..(n - 1) : r[i] = q[IF i < k THEN i ELSE i + 1]
    <3> SUFFICES ASSUME NEW i \in 1..(n - 1) PROVE r[i] = q[IF i < k THEN i ELSE i + 1]
      OBVIOUS
    <3>1. CASE i < k
      BY <1>1, <2>1, <2>4, <2>6, <3>1
    <3>2. CASE ~(i < k)
      <4>1. i - (k - 1) \in 1..(n - k) /\ k + (i - (k - 1)) = i + 1 /\ ~(i <= k - 1)
        BY <1>1, <2>1, <3>2
      <4>2. r[i] = b[i - (k - 1)] /\ b[i - (k - 1)] = q[k + (i - (k - 1))]
        BY <2>5, <2>6, <4>1
      <4> QED BY <3>2, <4>1, <4>2
    <3> QED BY <3>1, <3>2
  <2> DEFINE at(i) == IF i < k THEN i ELSE i + 1
  <2>8. n \in Int /\ k \in Int /\ 1 <= k /\ k <= n
    BY <1>1, <2>1
  <2>9. \A i \in 1..(n - 1) : at(i) \in 1..n /\ at(i) # k
    BY <2>8
  <2>10. ASSUME NEW i \in 1..(n - 1), NEW j \in 1..(n - 1), at(i) = at(j) PROVE i = j
    <3>1. i \in Int /\ j \in Int
      OBVIOUS
    <3>2. (IF i < k THEN i ELSE i + 1) = (IF j < k THEN j ELSE j + 1)
      BY <2>10
    <3> HIDE DEF n
    <3> QED BY <2>8, <3>1, <3>2
  <2>11. \A m \in 1..n : m # k => \E i \in 1..(n - 1) : at(i) = m
    <3> SUFFICES ASSUME NEW m \in 1..n, m # k PROVE \E i \in 1..(n - 1) : at(i) = m
      OBVIOUS
    <3>1. CASE m < k
      <4>1. m \in 1..(n - 1) /\ at(m) = m
        BY <1>1, <2>1, <3>1
      <4> QED BY <4>1
    <3>2. CASE m > k
      <4>1. m - 1 \in 1..(n - 1) /\ at(m - 1) = m
        BY <1>1, <2>1, <3>2
      <4> QED BY <4>1
    <3> QED BY <2>1, <3>1, <3>2
  <2>12. \A i \in 1..(n - 1) : r[i] = q[at(i)]
    BY <2>7
  <2>13. /\ \A i \in 1..n : q[i] \in S
         /\ \A i, j \in 1..n : q[i] = q[j] => i = j
         /\ \A s \in S : \E i \in 1..n : q[i] = s
         /\ k \in 1..n /\ q[k] = e /\ n \in Nat
    BY <1>1, <2>1
  <2> HIDE DEF at, n
  <2>14. \A i \in 1..(n - 1) : r[i] \in S \ {e}
    BY <2>9, <2>12, <2>13
  <2>15. r \in Seq(S \ {e})
    <3>1. r = [i \in 1..(n - 1) |-> r[i]]
      BY <2>6, <2>13
    <3>2. n - 1 \in Nat
      BY <2>13
    <3> QED BY <2>14, <3>1, <3>2
  <2>16. \A i, j \in 1..(n - 1) : r[i] = r[j] => i = j
    BY <2>9, <2>10, <2>12, <2>13
  <2>17. \A s \in S \ {e} : \E i \in 1..(n - 1) : r[i] = s
    <3> SUFFICES ASSUME NEW s \in S \ {e} PROVE \E i \in 1..(n - 1) : r[i] = s
      OBVIOUS
    <3>1. PICK m \in 1..n : q[m] = s
      BY <2>13
    <3>2. PICK i \in 1..(n - 1) : at(i) = m
      BY <2>11, <2>13, <3>1
    <3> QED BY <2>12, <3>1, <3>2
  <2> QED BY <2>3, <2>6, <2>15, <2>16, <2>17 DEF Listing
<1> QED BY <1>2, <1>3

LEMMA InsertListing ==
    ASSUME NEW S, NEW q, Listing(q, S), NEW e, e \notin S, NEW k \in 1..(Len(q) + 1)
    PROVE  Listing(InsertAt(q, k, e), S \cup {e})
<1> DEFINE n == Len(q)
<1> DEFINE T == S \cup {e}
<1> DEFINE a == SubSeq(q, 1, k - 1)
<1> DEFINE b == SubSeq(q, k, n)
<1> DEFINE r == (a \o <<e>>) \o b
<1>1. /\ q \in Seq(S) /\ n \in Nat /\ \A i \in 1..n : q[i] \in S
      /\ \A i, j \in 1..n : q[i] = q[j] => i = j
      /\ \A s \in S : \E i \in 1..n : q[i] = s
  BY LenProperties, ElementOfSeq DEF Listing
<1>2. InsertAt(q, k, e) = r
  BY DEF InsertAt
<1>3. /\ a \in Seq(T) /\ Len(a) = k - 1
      /\ \A i \in 1..(k - 1) : a[i] = q[i]
  <2>1. \A i \in 1..(k - 1) : q[i] \in T
    BY <1>1
  <2> QED BY <1>1, <2>1, SubSeqProperties
<1>4. /\ b \in Seq(T) /\ Len(b) = n - k + 1
      /\ \A i \in 1..(n - k + 1) : b[i] = q[k + i - 1]
  <2>1. \A i \in k..n : q[i] \in T
    BY <1>1
  <2>2. /\ b \in Seq(T) /\ Len(b) = IF k <= n THEN n - k + 1 ELSE 0
        /\ \A i \in 1..(n - k + 1) : b[i] = q[k + i - 1]
    BY <1>1, <2>1, SubSeqProperties
  <2> QED BY <1>1, <2>2
<1> HIDE DEF a, b
<1> DEFINE c == a \o <<e>>
<1>5. /\ c \in Seq(T) /\ Len(c) = k
      /\ \A i \in 1..k : c[i] = IF i <= k - 1 THEN a[i] ELSE e
  <2>1. <<e>> \in Seq(T) /\ Len(<<e>>) = 1 /\ <<e>>[1] = e
    OBVIOUS
  <2>2. /\ c \in Seq(T) /\ Len(c) = (k - 1) + 1
        /\ \A i \in 1..((k - 1) + 1) : c[i] = IF i <= k - 1 THEN a[i] ELSE <<e>>[i - (k - 1)]
    BY <1>3, <2>1, ConcatProperties
  <2>3. \A i \in 1..k : ~(i <= k - 1) => i - (k - 1) = 1
    OBVIOUS
  <2> QED BY <2>1, <2>2, <2>3
<1> HIDE DEF c
<1>6. /\ r \in Seq(T) /\ Len(r) = n + 1
      /\ \A i \in 1..(n + 1) : r[i] = IF i <= k THEN c[i] ELSE b[i - k]
  <2>1. r = c \o b /\ k + (n - k + 1) = n + 1
    BY <1>1 DEF c
  <2>2. /\ c \o b \in Seq(T) /\ Len(c \o b) = Len(c) + Len(b)
        /\ \A i \in 1..(Len(c) + Len(b)) : (c \o b)[i] = IF i <= Len(c) THEN c[i] ELSE b[i - Len(c)]
    BY <1>4, <1>5, ConcatProperties
  <2> QED BY <1>4, <1>5, <2>1, <2>2
<1> HIDE DEF r
<1>7. \A i \in 1..(n + 1) : r[i] = IF i < k THEN q[i] ELSE IF i = k THEN e ELSE q[i - 1]
  <2> SUFFICES ASSUME NEW i \in 1..(n + 1)
               PROVE  r[i] = IF i < k THEN q[i] ELSE IF i = k THEN e ELSE q[i - 1]
    OBVIOUS
  <2>1. CASE i < k
    <3>1. i \in 1..(k - 1) /\ i \in 1..k /\ i <= k /\ i <= k - 1
      BY <1>1, <2>1
    <3>2. r[i] = c[i] /\ c[i] = a[i] /\ a[i] = q[i]
      BY <1>3, <1>5, <1>6, <3>1
    <3> QED BY <2>1, <3>2
  <2>2. CASE i = k
    BY <1>1, <1>5, <1>6, <2>2
  <2>3. CASE i > k
    <3>1. i - k \in 1..(n - k + 1) /\ k + (i - k) - 1 = i - 1
      BY <1>1, <2>3
    <3>2. r[i] = b[i - k] /\ b[i - k] = q[k + (i - k) - 1]
      BY <1>4, <1>6, <2>3, <3>1
    <3> QED BY <2>3, <3>1, <3>2
  <2> QED BY <2>1, <2>2, <2>3
<1>8. \A i \in 1..(n + 1) : /\ i < k => i \in 1..n
                            /\ i > k => i - 1 \in 1..n
  BY <1>1
<1> HIDE DEF n
<1>9. \A i \in 1..(n + 1) : i # k => r[i] \in S
  BY <1>1, <1>7, <1>8
<1>10. \A i, j \in 1..(n + 1) : r[i] = r[j] => i = j
  <2> SUFFICES ASSUME NEW i \in 1..(n + 1), NEW j \in 1..(n + 1), r[i] = r[j] PROVE i = j
    OBVIOUS
  <2>1. k \in 1..(n + 1) /\ r[k] = e
    BY <1>7 DEF n
  <2>2. CASE i = k \/ j = k
    BY <1>9, <2>1, <2>2
  <2>3. CASE i # k /\ j # k
    <3> DEFINE at(x) == IF x < k THEN x ELSE x - 1
    <3>1. r[i] = q[at(i)] /\ r[j] = q[at(j)] /\ at(i) \in 1..n /\ at(j) \in 1..n
      BY <1>7, <1>8, <2>3
    <3>2. at(i) = at(j)
      BY <1>1, <3>1
    <3> QED BY <2>3, <3>2
  <2> QED BY <2>2, <2>3
<1>11. \A s \in T : \E i \in 1..(n + 1) : r[i] = s
  <2> SUFFICES ASSUME NEW s \in T PROVE \E i \in 1..(n + 1) : r[i] = s
    OBVIOUS
  <2>1. CASE s = e
    BY <1>7, <2>1 DEF n
  <2>2. CASE s \in S
    <3>1. PICK m \in 1..n : q[m] = s
      BY <1>1, <2>2
    <3>2. CASE m < k
      <4>1. m \in 1..(n + 1)
        BY <1>1
      <4> QED BY <1>7, <3>1, <3>2, <4>1
    <3>3. CASE ~(m < k)
      <4>1. m + 1 \in 1..(n + 1) /\ ~(m + 1 < k) /\ m + 1 # k /\ (m + 1) - 1 = m
        BY <1>1, <3>3
      <4> QED BY <1>7, <3>1, <4>1
    <3> QED BY <3>2, <3>3
  <2> QED BY <2>1, <2>2
<1> QED BY <1>2, <1>6, <1>10, <1>11 DEF Listing, n

\* Where a section stands in a list.
PlaceIn(q, s) == (CHOOSE i \in DOMAIN q : q[i] = s) - 1
LEMMA ListingPlaces ==
    ASSUME NEW S, NEW q, Listing(q, S)
    PROVE  /\ IsFiniteSet(S)
           /\ \A s \in S : PlaceIn(q, s) \in Nat
           /\ {PlaceIn(q, s) : s \in S} = 0..(Cardinality(S) - 1)
<1> DEFINE n == Len(q)
<1> DEFINE at(s) == CHOOSE i \in DOMAIN q : q[i] = s
<1>1. /\ q \in Seq(S) /\ n \in Nat /\ \A i \in 1..n : q[i] \in S
      /\ \A i, j \in 1..n : q[i] = q[j] => i = j
      /\ \A s \in S : \E i \in 1..n : q[i] = s
      /\ DOMAIN q = 1..n
  BY LenProperties, ElementOfSeq DEF Listing
<1>2. \A s \in S : at(s) \in 1..n /\ q[at(s)] = s
  BY <1>1
<1>3. IsFiniteSet(S) /\ Cardinality(S) = n
  <2>1. q \in [1..n -> S]
    BY <1>1
  <2>2. q \in Bijection(1..n, S)
    BY <1>1, <2>1 DEF Bijection, Injection, Surjection, IsInjective
  <2>3. IsFiniteSet(1..n) /\ Cardinality(1..n) = n
    <3>1. 1 \in Int /\ n \in Int
      BY <1>1
    <3>2. IsFiniteSet(1..n) /\ Cardinality(1..n) = IF 1 > n THEN 0 ELSE n - 1 + 1
      BY <3>1, FS_Interval
    <3> QED BY <1>1, <3>2
  <2> QED BY <2>2, <2>3, FS_Bijection DEF ExistsBijection
<1> HIDE DEF at, n
<1>4. \A i \in 1..n : at(q[i]) = i
  BY <1>1, <1>2
<1>5. \A s \in S : at(s) - 1 \in 0..(n - 1)
  BY <1>1, <1>2
<1>6. \A x \in 0..(n - 1) : \E s \in S : at(s) - 1 = x
  <2> SUFFICES ASSUME NEW x \in 0..(n - 1) PROVE \E s \in S : at(s) - 1 = x
    OBVIOUS
  <2>1. x + 1 \in 1..n
    BY <1>1
  <2>2. q[x + 1] \in S /\ at(q[x + 1]) = x + 1
    BY <1>1, <1>4, <2>1
  <2>3. at(q[x + 1]) - 1 = x
    BY <2>2
  <2> QED BY <2>2, <2>3
<1>7. {at(s) - 1 : s \in S} = 0..(n - 1)
  BY <1>5, <1>6
<1>8. \A s : PlaceIn(q, s) = at(s) - 1
  BY DEF PlaceIn, at
<1>9. {PlaceIn(q, s) : s \in S} = {at(s) - 1 : s \in S}
  BY <1>8
<1>10. \A s \in S : PlaceIn(q, s) \in Nat
  BY <1>1, <1>5, <1>8
<1> QED BY <1>3, <1>7, <1>9, <1>10

\* Requests that arrange the sections, and the section that is gone afterwards.
Orders(r) == r.kind \in {"create", "delete"} \/ (r.kind = "update" /\ r.position # Stay)
Leaving(p) == IF req[p].kind = "delete" THEN {req[p].section} ELSE {}
OrderCommit(p) == CommitCreate(p) \/ CommitDelete(p) \/ (CommitUpdate(p) /\ req[p].position # Stay)

\* The section has been read; the order has been read.
Keeping(p) == /\ todo[p] # <<>> /\ Orders(req[p])
              /\ (req[p].kind = "update" /\ Left(p) <= 3) \/ (req[p].kind = "delete" /\ Left(p) <= 4)
Arranging(p) == todo[p] # <<>> /\ Orders(req[p]) /\ Left(p) = 1

\* A request has a list of the sections it has read, and what it has read of them still
\* holds unless others have arranged them.
PlaceInv ==
    /\ \A s \in DOMAIN sections : sections[s].position \in Nat
    /\ \A p \in Procs : Keeping(p) =>
         /\ mem[p].self = req[p].section
         /\ "order" \notin span[p] => /\ mem[p].self \in DOMAIN sections
                                      /\ mem[p].row.position = sections[mem[p].self].position
    /\ \A p \in Procs : Arranging(p) =>
         /\ Listing(mem[p].order, DOMAIN mem[p].loaded)
         /\ "order" \notin span[p] =>
              /\ DOMAIN mem[p].loaded = DOMAIN sections \ Leaving(p)
              /\ \A s \in DOMAIN mem[p].loaded : mem[p].loaded[s] = sections[s].position

\* What a move has left.
LEMMA MovePlace ==
    ASSUME ControlInv, NEW p \in Procs, todo[p] # <<>>, req[p].kind = "update", req[p].position # Stay
    PROVE  /\ req[p] \in Requests /\ Left(p) \in 1..4
           /\ Head(todo[p]) = "section" <=> Left(p) = 4
           /\ Head(todo[p]) = "report" <=> Left(p) = 3
           /\ Head(todo[p]) = "order" <=> Left(p) = 2
           /\ Head(todo[p]) = "commit" <=> Left(p) = 1
<1>1. req[p] \in Requests /\ todo[p] \in Seq(Awaits) /\ Suffix(todo[p], Steps(req[p]))
  BY DEF ControlInv
<1>2. Steps(req[p]) = <<"section", "report", "order", "commit">>
  BY DEF Steps
<1>3. Left(p) \in 1..4 /\ Head(todo[p]) = Steps(req[p])[4 - Left(p) + 1]
  BY <1>1, <1>2, SuffixSteps, StepsType DEF Left
<1>4. Left(p) \in {1, 2, 3, 4}
  BY <1>3
<1> QED BY <1>1, <1>2, <1>3, <1>4

\* What a deletion has left.
LEMMA DeletionPlace ==
    ASSUME ControlInv, NEW p \in Procs, todo[p] # <<>>, req[p].kind = "delete"
    PROVE  /\ req[p] \in Requests /\ Left(p) \in 1..5
           /\ Head(todo[p]) = "section" <=> Left(p) = 5
           /\ Head(todo[p]) = "report" <=> Left(p) = 4
           /\ Head(todo[p]) = "flush" <=> Left(p) = 3
           /\ Head(todo[p]) = "order" <=> Left(p) = 2
           /\ Head(todo[p]) = "commit" <=> Left(p) = 1
<1>1. req[p] \in Requests /\ todo[p] \in Seq(Awaits) /\ Suffix(todo[p], Steps(req[p]))
  BY DEF ControlInv
<1>2. Steps(req[p]) = <<"section", "report", "flush", "order", "commit">>
  BY DEF Steps
<1>3. Left(p) \in 1..5 /\ Head(todo[p]) = Steps(req[p])[5 - Left(p) + 1]
  BY <1>1, <1>2, SuffixSteps, StepsType DEF Left
<1>4. Left(p) \in {1, 2, 3, 4, 5}
  BY <1>3
<1> QED BY <1>1, <1>2, <1>3, <1>4

\* What a process has read of the sections it had read before, or has just read.
LEMMA KeepingStep ==
    ASSUME ShapeInv, ControlInv, NEW p \in Procs, Step(p), NEW q \in Procs, Keeping(q)'
    PROVE  /\ req'[q] = req[q] /\ span[q] \subseteq span'[q]
           /\ \/ Keeping(q) /\ mem'[q].self = mem[q].self /\ mem'[q].row = mem[q].row
              \/ /\ q = p /\ LoadSection(p) /\ req[p].section \in DOMAIN sections
                 /\ mem'[p].self = req[p].section /\ mem'[p].row = sections[req[p].section]
<1>1. CASE q # p
  BY <1>1, Moves DEF Apart, Keeping, Left
<1>2. CASE q = p /\ Begins(p)
  <2>1. CASE req'[p].kind = "update" /\ req'[p].position # Stay
    <3>1. todo'[p] = <<"section", "report", "order", "commit">>
      BY <1>2, <2>1 DEF Begins, Steps
    <3>2. Left(p)' = 4
      BY <3>1 DEF Left
    <3> QED BY <1>2, <2>1, <3>2 DEF Keeping
  <2>2. CASE req'[p].kind = "delete"
    <3>1. todo'[p] = <<"section", "report", "flush", "order", "commit">>
      BY <1>2, <2>2 DEF Begins, Steps
    <3>2. Left(p)' = 5
      BY <3>1 DEF Left
    <3> QED BY <1>2, <2>2, <3>2 DEF Keeping
  <2> QED BY <1>2, <2>1, <2>2 DEF Keeping, Orders
<1>3. CASE q = p /\ Looks(p)
  <2>1. /\ todo[p] # <<>> /\ Left(p)' = Left(p) - 1 /\ Head(todo[p]) # "commit" /\ req'[p] = req[p]
        /\ span' = span
    BY <1>3, LeftAfter, Labels DEF Looks
  <2>2. ASSUME LoadSection(p)
        PROVE  /\ req[p].section \in DOMAIN sections /\ mem'[p].self = req[p].section
               /\ mem'[p].row = sections[req[p].section]
    BY <2>2 DEF LoadSection, Reads, ShapeInv, Blank
  <2>3. ASSUME LoadReport(p) \/ FlushDelete(p) \/ ReadOrder(p)
        PROVE  mem'[p].self = mem[p].self /\ mem'[p].row = mem[p].row
    BY <2>3 DEF LoadReport, FlushDelete, ReadOrder, Reads, ShapeInv, Blank
  <2>4. CASE req[p].kind = "update" /\ req[p].position # Stay
    <3>1. Left(p) \in {2, 3, 4}
      BY <2>1, <2>4, MovePlace
    <3>2. CASE Left(p) = 4
      <4>1. LoadSection(p)
        BY <1>3, <2>1, <2>4, <3>2, MovePlace, Labels
      <4> QED BY <1>3, <2>1, <2>2, <4>1
    <3>3. CASE Left(p) \in {2, 3}
      <4>1. LoadReport(p) \/ ReadOrder(p)
        BY <1>3, <2>1, <2>4, <3>3, MovePlace, Labels DEF ReadReport, At
      <4> QED BY <1>3, <2>1, <2>3, <2>4, <3>3, <4>1 DEF Keeping, Orders
    <3> QED BY <3>1, <3>2, <3>3
  <2>5. CASE req[p].kind = "delete"
    <3>1. Left(p) \in {2, 3, 4, 5}
      BY <2>1, <2>5, DeletionPlace
    <3>2. CASE Left(p) = 5
      <4>1. LoadSection(p)
        BY <1>3, <2>1, <2>5, <3>2, DeletionPlace, Labels
      <4> QED BY <1>3, <2>1, <2>2, <4>1
    <3>3. CASE Left(p) \in {2, 3, 4}
      <4>1. LoadReport(p) \/ FlushDelete(p) \/ ReadOrder(p)
        BY <1>3, <2>1, <2>5, <3>3, DeletionPlace, Labels DEF ReadReport, At
      <4> QED BY <1>3, <2>1, <2>3, <2>5, <3>3, <4>1 DEF Keeping, Orders
    <3> QED BY <3>1, <3>2, <3>3
  <2> QED BY <1>3, <2>1, <2>4, <2>5 DEF Keeping, Orders
<1>4. CASE q = p /\ Stops(p)
  BY <1>4 DEF Stops, Keeping
<1> QED BY <1>1, <1>2, <1>3, <1>4, Moves

LEMMA ArrangingStep ==
    ASSUME ShapeInv, ControlInv, NEW p \in Procs, Step(p), NEW q \in Procs, Arranging(q)'
    PROVE  /\ req'[q] = req[q] /\ span[q] \subseteq span'[q]
           /\ \/ q # p /\ Arranging(q) /\ mem'[q] = mem[q]
              \/ /\ q = p /\ ReadOrder(p) /\ Orders(req[p]) /\ Left(p) = 2 /\ todo[p] # <<>>
                 /\ Head(todo[p]) = "order" /\ UNCHANGED <<stores, span, disordered>>
<1>1. CASE q # p
  BY <1>1, Moves DEF Apart, Arranging, Left
<1>2. CASE q = p /\ Begins(p)
  <2>1. todo'[p] = Steps(req'[p]) /\ Orders(req'[p])
    BY <1>2 DEF Begins, Arranging
  <2>2. Len(Steps(req'[p])) \in {3, 4, 5}
    BY <2>1 DEF Steps, Orders
  <2> QED BY <1>2, <2>1, <2>2 DEF Arranging, Left
<1>3. CASE q = p /\ Looks(p)
  <2>1. /\ todo[p] # <<>> /\ Left(p)' = Left(p) - 1 /\ req'[p] = req[p] /\ Orders(req[p])
        /\ UNCHANGED <<stores, span, disordered>> /\ Left(p) \in Nat
    BY <1>3, LeftAfter, Labels DEF Looks, Arranging, stores, history
  <2>2. Left(p) = 2
    BY <1>3, <2>1 DEF Arranging
  <2>3. Head(todo[p]) = "order"
    BY <2>1, <2>2, CreationPlace, MovePlace, DeletionPlace DEF Orders
  <2>4. ReadOrder(p)
    BY <1>3, <2>3, Labels
  <2> QED BY <1>3, <2>1, <2>2, <2>3, <2>4
<1>4. CASE q = p /\ Stops(p)
  BY <1>4 DEF Stops, Arranging
<1> QED BY <1>1, <1>2, <1>3, <1>4, Moves

\* The places a request gives: each of the sections it has read has one, from 0 upwards.
Arranged(p) == DOMAIN mem[p].loaded \cup (IF req[p].kind = "delete" THEN {} ELSE {mem[p].self})
LEMMA Places ==
    ASSUME NEW p \in Procs, req[p] \in Requests, Orders(req[p]), Listing(mem[p].order, DOMAIN mem[p].loaded)
    PROVE  /\ IsFiniteSet(Arranged(p))
           /\ \A s \in Arranged(p) : Place(p, s) \in Nat
           /\ {Place(p, s) : s \in Arranged(p)} = 0..(Cardinality(Arranged(p)) - 1)
<1> DEFINE S == DOMAIN mem[p].loaded
<1>1. Listing(Arrangement(p), Arranged(p))
  <2>1. CASE req[p].kind = "delete"
    BY <2>1 DEF Arrangement, Arranged
  <2>2. CASE req[p].kind # "delete"
    <3> DEFINE e == mem[p].self
    <3> DEFINE others == RemoveFirst(mem[p].order, e)
    <3> DEFINE k == Min({req[p].position, Len(others)}) + 1
    <3>1. Listing(others, S \ {e})
      BY RemoveListing
    <3>2. Len(others) \in Nat
      BY <3>1, LenProperties DEF Listing
    <3>3. req[p].position \in Nat
      BY <2>2, WorkspaceAssumption DEF Orders, Requests, Positions, Stay
    <3>4. Min({req[p].position, Len(others)}) \in 0..Len(others)
      <4> DEFINE x == req[p].position
      <4> DEFINE y == Len(others)
      <4> HIDE DEF x, y, others
      <4>1. x \in Nat /\ y \in Nat
        BY <3>2, <3>3 DEF x, y
      <4>2. CASE x <= y
        <5>1. Min({x, y}) = x
          BY <4>1, <4>2 DEF Min
        <5> QED BY <4>1, <4>2, <5>1 DEF x, y
      <4>3. CASE y <= x
        <5>1. Min({x, y}) = y
          BY <4>1, <4>3 DEF Min
        <5> QED BY <4>1, <4>3, <5>1 DEF x, y
      <4> QED BY <4>1, <4>2, <4>3
    <3>5. k \in 1..(Len(others) + 1)
      BY <3>2, <3>4
    <3>6. Arrangement(p) = InsertAt(others, k, e)
      BY <2>2 DEF Arrangement
    <3>7. (S \ {e}) \cup {e} = Arranged(p)
      BY <2>2 DEF Arranged
    <3> HIDE DEF others, k, e
    <3>8. e \notin S \ {e}
      OBVIOUS
    <3> QED BY <3>1, <3>5, <3>6, <3>7, <3>8, InsertListing
  <2> QED BY <2>1, <2>2
<1>2. \A s : Place(p, s) = PlaceIn(Arrangement(p), s)
  BY DEF Place, PlaceIn
<1>3. {Place(p, s) : s \in Arranged(p)} = {PlaceIn(Arrangement(p), s) : s \in Arranged(p)}
  BY <1>2
<1> QED BY <1>1, <1>2, <1>3, ListingPlaces

\* A commit that arranges: which sections there are then, where they stand, and what the
\* others learn.
LEMMA OrderRows ==
    ASSUME ShapeInv, ControlInv, RowsInv, NEW p \in Procs, Step(p), OrderCommit(p)
    PROVE  /\ Arranging(p) /\ req[p] \in Requests /\ todo'[p] = <<>>
           /\ disordered' = ("order" \in span[p])
           /\ \A q \in Procs \ {p} : todo[q] # <<>> => "order" \in span'[q]
           /\ DOMAIN sections' =
                (DOMAIN sections \ Leaving(p)) \cup (IF CommitCreate(p) THEN {mem[p].self} ELSE {})
           /\ \A s \in DOMAIN sections' :
                \/ s = mem[p].self /\ CommitCreate(p) /\ sections'[s].position = Place(p, s)
                \/ /\ s \in DOMAIN sections
                   /\ sections'[s].position = IF s \in Dirty(p) THEN Place(p, s) ELSE sections[s].position
           /\ CommitUpdate(p) => req[p].section \in DOMAIN sections
           /\ CommitCreate(p) <=> req[p].kind = "create"
           /\ CommitUpdate(p) <=> req[p].kind = "update"
<1>1. todo[p] # <<>> /\ Head(todo[p]) = "commit" /\ Orders(req[p])
  BY DEF OrderCommit, CommitCreate, CommitUpdate, CommitDelete, At, Orders
<1>2. req[p] \in Requests
  BY <1>1, LeftAfter
<1>3. Arranging(p)
  BY <1>1, CreationPlace, MovePlace, DeletionPlace DEF Arranging, Orders
<1>4. Ends(p, {"order"}) /\ disordered' = ("order" \in span[p])
  BY DEF OrderCommit, CommitCreate, CommitUpdate, CommitDelete, Reordered
<1>5. todo'[p] = <<>> /\ \A q \in Procs \ {p} : todo[q] # <<>> => "order" \in span'[q]
  BY <1>4 DEF Ends, ShapeInv
<1>6. \A s \in DOMAIN sections :
        /\ Renumbered(p, s).position = IF s \in Dirty(p) THEN Place(p, s) ELSE sections[s].position
        /\ DOMAIN Renumbered(p, s) = DOMAIN NewRow(0)
  BY DEF Renumbered, RowsInv, NewRow
<1>7. CASE CommitCreate(p)
  <2>1. /\ DOMAIN sections' = DOMAIN sections \cup {mem[p].self}
        /\ \A s \in DOMAIN sections' :
             sections'[s] = IF s = mem[p].self THEN NewRow(Place(p, s)) ELSE Renumbered(p, s)
        /\ req[p].kind = "create"
    BY <1>7 DEF CommitCreate, At
  <2>2. \A x : NewRow(x).position = x
    BY DEF NewRow
  <2>3. ~CommitUpdate(p) /\ Leaving(p) = {}
    BY <2>1 DEF CommitUpdate, At, Leaving
  <2> HIDE DEF NewRow
  <2> QED BY <1>2, <1>3, <1>4, <1>5, <1>6, <1>7, <2>1, <2>2, <2>3
<1>8. CASE CommitUpdate(p)
  <2> DEFINE renumbered == [t \in DOMAIN sections |-> Renumbered(p, t)]
  <2>1. req[p].kind = "update" /\ req[p].section \in DOMAIN sections /\ ~CommitCreate(p) /\ Leaving(p) = {}
    BY <1>8 DEF CommitUpdate, CommitCreate, At, Writes, Leaving
  <2>2. sections' = IF req[p].rewrites THEN [renumbered EXCEPT ![req[p].section].quotes = {}] ELSE renumbered
    BY <1>1, <1>8, <2>1 DEF CommitUpdate, Orders
  <2>3. DOMAIN sections' = DOMAIN sections
    BY <2>2
  <2>4. \A s \in DOMAIN sections : sections'[s].position = Renumbered(p, s).position
    <3> SUFFICES ASSUME NEW s \in DOMAIN sections PROVE sections'[s].position = Renumbered(p, s).position
      OBVIOUS
    <3>1. sections'[s] = Renumbered(p, s) \/ sections'[s] = [Renumbered(p, s) EXCEPT !.quotes = {}]
      BY <2>2
    <3>2. "position" \in DOMAIN Renumbered(p, s)
      BY <1>6 DEF NewRow
    <3> QED BY <3>1, <3>2
  <2> QED BY <1>2, <1>3, <1>4, <1>5, <1>6, <1>8, <2>1, <2>3, <2>4
<1>9. CASE CommitDelete(p)
  <2>1. sections' = [s \in DOMAIN sections \ {req[p].section} |-> Renumbered(p, s)] /\ req[p].kind = "delete"
    BY <1>9 DEF CommitDelete, At
  <2>2. ~CommitCreate(p) /\ ~CommitUpdate(p) /\ Leaving(p) = {req[p].section}
    BY <2>1 DEF CommitCreate, CommitUpdate, At, Leaving
  <2> QED BY <1>2, <1>3, <1>4, <1>5, <1>6, <2>1, <2>2
<1> QED BY <1>7, <1>8, <1>9 DEF OrderCommit

\* Every other step leaves the sections where they stand.
LEMMA OtherRows ==
    ASSUME RowsInv, NEW p \in Procs, Step(p), ~OrderCommit(p)
    PROVE  /\ disordered' = disordered /\ DOMAIN sections' = DOMAIN sections
           /\ \A s \in DOMAIN sections : sections'[s].position = sections[s].position
<1>0. \A s \in DOMAIN sections : "position" \in DOMAIN sections[s] /\ "position" # "quotes"
  BY DEF RowsInv, NewRow
<1>1. ASSUME NEW s \in DOMAIN sections, NEW Q, sections' = [sections EXCEPT ![s].quotes = Q]
      PROVE  /\ DOMAIN sections' = DOMAIN sections
             /\ \A t \in DOMAIN sections : sections'[t].position = sections[t].position
  BY <1>0, <1>1
<1>2. CASE CommitUpdate(p)
  <2>1. /\ req[p].section \in DOMAIN sections /\ disordered' = disordered
        /\ sections' = [sections EXCEPT ![req[p].section].quotes = {}] \/ sections' = sections
    BY <1>2 DEF CommitUpdate, OrderCommit, Writes
  <2> QED BY <1>1, <2>1
<1>3. CASE CommitInsert(p) \/ CommitAnswer(p)
  <2>1. /\ req[p].section \in DOMAIN sections /\ disordered' = disordered
        /\ \/ sections' = [sections EXCEPT ![req[p].section].quotes = mem[p].row.quotes \cup {mem[p].serial}]
           \/ sections' = sections
    BY <1>3 DEF CommitInsert, CommitAnswer, Inserts, Writes
  <2> QED BY <1>1, <2>1
<1>4. CASE ~CommitUpdate(p) /\ ~CommitInsert(p) /\ ~CommitAnswer(p)
  BY <1>4, Writers DEF OrderCommit
<1> QED BY <1>2, <1>3, <1>4

\* What is read of the order is a list of the sections in sight.
LEMMA OrderRead ==
    ASSUME ShapeInv, ControlInv, NewInv, PlaceInv, NEW p \in Procs, ReadOrder(p),
           todo[p] # <<>>, Left(p) = 2, Orders(req[p])
    PROVE  /\ Listing(mem'[p].order, DOMAIN mem'[p].loaded)
           /\ DOMAIN mem'[p].loaded = DOMAIN sections \ Leaving(p)
           /\ "order" \notin span[p] => \A s \in DOMAIN mem'[p].loaded : mem'[p].loaded[s] = sections[s].position
<1> DEFINE ids == DOMAIN sections \ Leaving(p)
<1>1. Head(todo[p]) = "order"
  BY DEF ReadOrder, At
<1>2. Seen(p) = ids
  BY <1>1 DEF Seen, Held, At, Leaving
<1>3. /\ mem'[p].order = Ordered(ids)
      /\ mem'[p].loaded = [s \in ids |-> IF s = mem[p].self THEN mem[p].row.position ELSE sections[s].position]
  BY <1>2 DEF ReadOrder, Reads, ShapeInv, Blank
<1>4. Listing(Ordered(ids), ids)
  <2>1. born \in Nat /\ ids \in SUBSET (1..born)
    BY DEF NewInv
  <2>2. IsFiniteSet(1..born)
    BY <2>1, FS_Interval
  <2>3. IsFiniteSet(ids) /\ ids \subseteq Nat
    BY <2>1, <2>2, FS_Subset
  <2>4. \A s \in ids : sections[s].position \in Int
    BY DEF PlaceInv
  <2> HIDE DEF ids
  <2> QED BY <2>3, <2>4, OrderedListing
<1>5. ASSUME "order" \notin span[p], mem[p].self \in ids
      PROVE  mem[p].row.position = sections[mem[p].self].position
  <2>1. CASE req[p].kind = "create"
    <3>1. Bringing(p)
      BY <2>1 DEF Bringing
    <3> QED BY <1>5, <3>1 DEF NewInv
  <2>2. CASE req[p].kind \in {"update", "delete"}
    <3>1. Keeping(p)
      BY <2>2 DEF Keeping
    <3> QED BY <1>5, <3>1 DEF PlaceInv
  <2> QED BY <2>1, <2>2 DEF Orders
<1> HIDE DEF ids
<1>6. /\ DOMAIN mem'[p].loaded = ids
      /\ \A s \in ids : mem'[p].loaded[s] = IF s = mem[p].self THEN mem[p].row.position ELSE sections[s].position
  BY <1>3
<1> QED BY <1>3, <1>4, <1>5, <1>6 DEF ids

LEMMA PlaceStep ==
    ASSUME ShapeInv, ControlInv, NewInv, RowsInv, PlaceInv, NEW p \in Procs, Step(p)
    PROVE  PlaceInv'
<1>1. ASSUME OrderCommit(p)
      PROVE  \A s \in Arranged(p) : Place(p, s) \in Nat
  <2>1. Arranging(p) /\ req[p] \in Requests
    BY <1>1, OrderRows
  <2> QED BY <2>1, Places DEF PlaceInv, Arranging
<1>2. ASSUME NEW s \in DOMAIN sections' PROVE sections'[s].position \in Nat
  <2>1. CASE OrderCommit(p)
    <3>1. CASE s = mem[p].self /\ CommitCreate(p) /\ sections'[s].position = Place(p, s)
      <4>1. s \in Arranged(p)
        BY <2>1, <3>1, OrderRows DEF Arranged
      <4> QED BY <1>1, <2>1, <3>1, <4>1
    <3>2. CASE /\ s \in DOMAIN sections
               /\ sections'[s].position = IF s \in Dirty(p) THEN Place(p, s) ELSE sections[s].position
      <4>1. s \in Dirty(p) => s \in Arranged(p)
        BY DEF Dirty, Arranged
      <4> QED BY <1>1, <2>1, <3>2, <4>1 DEF PlaceInv
    <3> QED BY <1>2, <2>1, <3>1, <3>2, OrderRows
  <2>2. CASE ~OrderCommit(p)
    BY <2>2, OtherRows DEF PlaceInv
  <2> QED BY <2>1, <2>2
<1>3. ASSUME NEW q \in Procs, todo[q] # <<>>, todo'[q] # <<>>, "order" \notin span'[q]
      PROVE  ~OrderCommit(p)
  BY <1>3, OrderRows
<1>4. ASSUME NEW q \in Procs, Keeping(q)'
      PROVE  /\ mem'[q].self = req'[q].section
             /\ "order" \notin span'[q] => /\ mem'[q].self \in DOMAIN sections'
                                           /\ mem'[q].row.position = sections'[mem'[q].self].position
  <2>1. CASE Keeping(q) /\ mem'[q].self = mem[q].self /\ mem'[q].row = mem[q].row
    <3>1. req'[q] = req[q] /\ span[q] \subseteq span'[q]
      BY <1>4, KeepingStep
    <3>2. todo[q] # <<>> /\ todo'[q] # <<>>
      BY <1>4, <2>1 DEF Keeping
    <3>3. ASSUME "order" \notin span'[q]
          PROVE  /\ mem[q].self \in DOMAIN sections'
                 /\ mem[q].row.position = sections'[mem[q].self].position
      <4>1. mem[q].self \in DOMAIN sections /\ mem[q].row.position = sections[mem[q].self].position
        BY <2>1, <3>1, <3>3 DEF PlaceInv
      <4>2. ~OrderCommit(p)
        BY <1>3, <3>2, <3>3
      <4> QED BY <4>1, <4>2, OtherRows
    <3> QED BY <2>1, <3>1, <3>3 DEF PlaceInv
  <2>2. CASE /\ q = p /\ LoadSection(p) /\ req[p].section \in DOMAIN sections
             /\ mem'[p].self = req[p].section /\ mem'[p].row = sections[req[p].section]
    <3>1. sections' = sections /\ req'[p] = req[p]
      BY <2>2 DEF LoadSection, Reads, stores
    <3> QED BY <2>2, <3>1
  <2> QED BY <1>4, <2>1, <2>2, KeepingStep
<1>5. ASSUME NEW q \in Procs, Arranging(q)'
      PROVE  /\ Listing(mem'[q].order, DOMAIN mem'[q].loaded)
             /\ "order" \notin span'[q] =>
                  /\ DOMAIN mem'[q].loaded = DOMAIN sections' \ Leaving(q)'
                  /\ \A s \in DOMAIN mem'[q].loaded : mem'[q].loaded[s] = sections'[s].position
  <2>1. req'[q] = req[q] /\ span[q] \subseteq span'[q] /\ Leaving(q)' = Leaving(q)
    BY <1>5, ArrangingStep DEF Leaving
  <2>2. CASE q # p /\ Arranging(q) /\ mem'[q] = mem[q]
    <3>1. todo[q] # <<>> /\ todo'[q] # <<>>
      BY <1>5, <2>2 DEF Arranging
    <3>2. ASSUME "order" \notin span'[q]
          PROVE  /\ DOMAIN mem[q].loaded = DOMAIN sections' \ Leaving(q)
                 /\ \A s \in DOMAIN mem[q].loaded : mem[q].loaded[s] = sections'[s].position
      <4>1. /\ DOMAIN mem[q].loaded = DOMAIN sections \ Leaving(q)
            /\ \A s \in DOMAIN mem[q].loaded : mem[q].loaded[s] = sections[s].position
        BY <2>1, <2>2, <3>2 DEF PlaceInv
      <4>2. ~OrderCommit(p)
        BY <1>3, <3>1, <3>2
      <4>3. DOMAIN sections' = DOMAIN sections /\ \A s \in DOMAIN sections : sections'[s].position = sections[s].position
        BY <4>2, OtherRows
      <4> QED BY <4>1, <4>3
    <3> QED BY <2>1, <2>2, <3>2 DEF PlaceInv
  <2>3. CASE /\ q = p /\ ReadOrder(p) /\ Orders(req[p]) /\ Left(p) = 2 /\ todo[p] # <<>>
             /\ Head(todo[p]) = "order" /\ UNCHANGED <<stores, span, disordered>>
    <3>1. sections' = sections /\ span' = span
      BY <2>3 DEF stores
    <3> QED BY <2>1, <2>3, <3>1, OrderRead
  <2> QED BY <1>5, <2>2, <2>3, ArrangingStep
<1> QED BY <1>2, <1>4, <1>5 DEF PlaceInv

LEMMA DenseStep ==
    ASSUME ShapeInv, ControlInv, NewInv, RowsInv, PlaceInv, OrderIsDense, NEW p \in Procs, Step(p)
    PROVE  OrderIsDense'
<1>1. CASE OrderCommit(p)
  <2> SUFFICES ASSUME ~disordered'
               PROVE  {sections'[s].position : s \in DOMAIN sections'} = 0..(Cardinality(DOMAIN sections') - 1)
    BY DEF OrderIsDense
  <2>1. Arranging(p) /\ req[p] \in Requests /\ "order" \notin span[p]
    BY <1>1, OrderRows
  <2>2. /\ Listing(mem[p].order, DOMAIN mem[p].loaded)
        /\ DOMAIN mem[p].loaded = DOMAIN sections \ Leaving(p)
        /\ \A s \in DOMAIN mem[p].loaded : mem[p].loaded[s] = sections[s].position
    BY <2>1 DEF PlaceInv
  <2>3. {Place(p, s) : s \in Arranged(p)} = 0..(Cardinality(Arranged(p)) - 1)
    BY <2>1, <2>2, Places DEF Arranging
  <2>4. \A s \in DOMAIN mem[p].loaded :
            (IF s \in Dirty(p) THEN Place(p, s) ELSE sections[s].position) = Place(p, s)
    BY <2>2 DEF Dirty
  <2>5. ASSUME req[p].kind = "update"
        PROVE  mem[p].self \in DOMAIN mem[p].loaded
    <3>1. Keeping(p)
      BY <2>1, <2>5 DEF Keeping, Arranging
    <3> QED BY <2>1, <2>2, <2>5, <3>1 DEF PlaceInv, Leaving
  <2>6. DOMAIN sections' = Arranged(p)
    BY <1>1, <2>1, <2>2, <2>5, OrderRows DEF Arranged, Arranging, Orders
  <2>7. \A s \in DOMAIN sections' : sections'[s].position = Place(p, s)
    <3> SUFFICES ASSUME NEW s \in DOMAIN sections' PROVE sections'[s].position = Place(p, s)
      OBVIOUS
    <3>1. s \in DOMAIN sections => s \in DOMAIN mem[p].loaded
      <4>1. s \in Arranged(p)
        BY <2>6
      <4>2. CASE s \in DOMAIN mem[p].loaded
        BY <4>2
      <4>3. CASE s = mem[p].self /\ req[p].kind = "create"
        BY <2>2, <4>3 DEF Leaving
      <4>4. CASE s = mem[p].self /\ req[p].kind = "update"
        BY <2>5, <4>4
      <4> QED BY <2>1, <4>1, <4>2, <4>3, <4>4 DEF Arranged, Arranging, Orders
    <3> QED BY <1>1, <2>4, <3>1, OrderRows
  <2>8. {sections'[s].position : s \in DOMAIN sections'} = {Place(p, s) : s \in DOMAIN sections'}
    BY <2>7
  <2> QED BY <2>3, <2>6, <2>8
<1>2. CASE ~OrderCommit(p)
  <2>1. /\ disordered' = disordered /\ DOMAIN sections' = DOMAIN sections
        /\ \A s \in DOMAIN sections : sections'[s].position = sections[s].position
    BY <1>2, OtherRows
  <2>2. {sections'[s].position : s \in DOMAIN sections'} = {sections[s].position : s \in DOMAIN sections}
    BY <2>1
  <2> QED BY <2>1, <2>2 DEF OrderIsDense
<1> QED BY <1>1, <1>2
-----------------------------------------------------------------------------
(* Theorems *)

Inv == ShapeInv /\ ControlInv /\ VouchInv /\ OrderInv /\ SourcesInv /\ PlaceInv /\ OrderIsDense

LEMMA InitInv == ASSUME Init PROVE Inv
<1>1. /\ \A p \in Procs : req[p] = Idle /\ todo[p] = <<>> /\ mem[p] = Blank
      /\ \A k \in KBs : ledger[k] = NoRecord /\ said[k] = {}
  BY DEF Init
<1>2. ShapeInv
  BY DEF Init, ShapeInv
<1>3. ControlInv
  <2>1. <<>> \in Seq(Awaits)
    OBVIOUS
  <2> QED BY <1>1, <2>1 DEF ControlInv
<1>4. VouchInv
  BY <1>1 DEF Init, VouchInv, LedgerInv, InsertedIsVouched, TurnInv, AnswerInv
<1>5. OrderInv
  <2> DEFINE m == [position |-> 0, since |-> 0]
  <2>1. messages = <<m>> /\ m \in [position : Nat, since : Nat] /\ m.position = 0 /\ m.since = 0
    BY DEF Init
  <2> HIDE DEF m
  <2>2. /\ messages \in Seq([position : Nat, since : Nat]) /\ Len(messages) = 1 /\ DOMAIN messages = {1}
        /\ messages[1] = m
    BY <2>1
  <2> QED BY <1>1, <2>1, <2>2 DEF OrderInv, MessagesKeepOrder, AppendInv
<1>6. SourcesInv
  <2>1. /\ sections = [s \in 1..FirstSections |-> NewRow(s - 1)] /\ sources = {} /\ born = FirstSections
    BY DEF Init
  <2>2. FirstSections \in Nat
    BY WorkspaceAssumption
  <2>3. \A s \in DOMAIN sections : DOMAIN sections[s] = DOMAIN NewRow(0) /\ sections[s].quotes = {}
    BY <2>1 DEF NewRow
  <2>4. \A p \in Procs : ~Bringing(p) /\ ~Adding(p) /\ ~Scoped(p) /\ ~Checked(p)
    BY <1>1 DEF Bringing, Adding, Scoped, Checked
  <2> QED BY <2>1, <2>2, <2>3, <2>4 DEF SourcesInv, NewInv, ReadInv, ScopeInv, RowsInv, SourcesHold
<1>7. PlaceInv /\ OrderIsDense
  <2>1. /\ sections = [s \in 1..FirstSections |-> NewRow(s - 1)] /\ FirstSections \in Nat
        /\ \A s \in 1..FirstSections : NewRow(s - 1).position = s - 1
    BY WorkspaceAssumption DEF Init, NewRow
  <2>2. DOMAIN sections = 1..FirstSections /\ \A s \in 1..FirstSections : sections[s].position = s - 1
    BY <2>1
  <2>3. \A p \in Procs : ~Keeping(p) /\ ~Arranging(p)
    BY <1>1 DEF Keeping, Arranging
  <2>4. Cardinality(1..FirstSections) = FirstSections
    BY <2>1, FS_Interval
  <2>5. {sections[s].position : s \in 1..FirstSections} = {s - 1 : s \in 1..FirstSections}
    BY <2>2
  <2>6. {s - 1 : s \in 1..FirstSections} = 0..(FirstSections - 1)
    <3> DEFINE N == FirstSections
    <3>1. N \in Nat
      BY <2>1
    <3> HIDE DEF N
    <3>2. \A s \in 1..N : s - 1 \in 0..(N - 1)
      BY <3>1
    <3>3. ASSUME NEW x \in 0..(N - 1) PROVE \E s \in 1..N : x = s - 1
      <4>1. x + 1 \in 1..N /\ x = (x + 1) - 1
        BY <3>1
      <4> QED BY <4>1
    <3>4. {s - 1 : s \in 1..N} = 0..(N - 1)
      BY <3>2, <3>3
    <3> QED BY <3>4 DEF N
  <2>7. PlaceInv
    BY <2>1, <2>2, <2>3 DEF PlaceInv
  <2>8. OrderIsDense
    BY <2>2, <2>4, <2>5, <2>6 DEF OrderIsDense
  <2> QED BY <2>7, <2>8
<1> QED BY <1>2, <1>3, <1>4, <1>5, <1>6, <1>7 DEF Inv

LEMMA StepInv ==
    ASSUME Inv, [Next]_vars
    PROVE  Inv'
<1>1. CASE Next
  <2>1. PICK p \in Procs : Step(p)
    BY <1>1, NextStep
  <2>2. NewInv /\ RowsInv
    BY DEF Inv, SourcesInv
  <2> QED BY <2>1, <2>2, ShapeStep, ControlStep, VouchStep, OrderStep, SourcesStep, PlaceStep, DenseStep DEF Inv
<1>2. CASE UNCHANGED vars
  <2> USE <1>2 DEF Inv, vars, stores, control, history
  <2>1. ShapeInv' /\ ControlInv'
    BY DEF ShapeInv, ControlInv
  <2>2. VouchInv'
    BY DEF VouchInv, LedgerInv, InsertedIsVouched, Warned, TurnInv, AnswerInv, Left
  <2>3. OrderInv'
    BY DEF OrderInv, MessagesKeepOrder, AppendInv, Left
  <2>4. NewInv' /\ ReadInv'
    BY DEF SourcesInv, NewInv, ReadInv, Sourced, Bringing, Adding, Left
  <2>5. ScopeInv' /\ RowsInv' /\ SourcesHold'
    BY DEF SourcesInv, ScopeInv, RowsInv, SourcesHold, Scoped, Checked, InScope, Left
  <2>6. PlaceInv' /\ OrderIsDense'
    BY DEF PlaceInv, OrderIsDense, Keeping, Arranging, Orders, Leaving, Listing, Left
  <2> QED BY <2>1, <2>2, <2>3, <2>4, <2>5, <2>6 DEF SourcesInv
<1> QED BY <1>1, <1>2

\* The invariant holds: every request holds what its remaining steps rely on.
THEOREM Invariance == Spec => []Inv
<1> QED BY InitInv, StepInv, PTL DEF Spec

\* An answer that is inserted has been told by the server for the report's knowledge base,
\* and is a draft without numbers if every turn told it from an unverified image or if one
\* did whose gate says so, unless two turns recorded it at once (record_streamed_answer,
\* verify_streamed_answer).
THEOREM InsertedVouched == Spec => []InsertedIsVouched
<1>1. Inv => InsertedIsVouched
  BY DEF Inv, VouchInv
<1> QED BY <1>1, Invariance, PTL

\* A message whose request began when another one was stored stands after it, however
\* many requests append at once (next_message_position).
THEOREM MessagesOrdered == Spec => []MessagesKeepOrder
<1>1. Inv => MessagesKeepOrder
  BY DEF Inv, OrderInv
<1> QED BY <1>1, Invariance, PTL

\* A source belongs to a section that is there and to the report's knowledge base, and an
\* inserted text keeps its source, for insertions and changes of the report that do not
\* overlap (_validate_reference_scope, insert_source_reference, delete_section).
THEOREM SourcesKept == Spec => []SourcesHold
<1>1. Inv => SourcesHold
  BY DEF Inv, SourcesInv
<1> QED BY <1>1, Invariance, PTL

\* Sections stand at 0, 1, 2, ... whatever was created, moved and deleted, as long as no
\* two of these requests have overlapped since the last one that did not; what one of them
\* left in disorder the next puts right (_renumber, delete_section).
THEOREM OrderDense == Spec => []OrderIsDense
<1>1. Inv => OrderIsDense
  BY DEF Inv
<1> QED BY <1>1, Invariance, PTL
=============================================================================
