-------------------------- MODULE ReportWorkspace --------------------------
(***************************************************************************)
(* Concurrent requests to one report and to one conversation whose answers *)
(* are inserted into it: the order of the sections, the sources and the    *)
(* knowledge base of the report, the ledger of what the server has said,   *)
(* and the order of the messages.  reports/api.py, chat/api.py,            *)
(* chat/trust.py, api/rag.py.                                              *)
(*                                                                         *)
(* A request has a session of its own: every SELECT sees what is committed *)
(* (READ COMMITTED, no row is locked for reading), an object that has been *)
(* loaded keeps the attributes it was loaded with, and the commit writes   *)
(* the attributes that differ from those.  Only a deletion flushes before  *)
(* its commit, and holds its row from there on.                            *)
(*                                                                         *)
(* A section is the serial number of the request that creates it, which is *)
(* the order of created_at; a source is the serial number of the request   *)
(* that inserts it, and a text that comes with a source is that number in  *)
(* the section.  The conversation holds one answer, which turns tell again *)
(* and again, each with the safety state of that turn.                     *)
(***************************************************************************)
EXTENDS Integers, FiniteSetsExt, SequencesExt

CONSTANTS
    Procs, KBs,
    Safety,        \* the safety states turns end with: gate, and an image analysed on the way
    FirstSections, \* how many sections the report starts with
    Mixes,         \* of which a behaviour has one: the kinds of its requests, and how many
    MaxRequests, MaxSections

\* _SAFETY_GATE_RANK.
Rank == [none |-> 0, visual_unverified |-> 1, vision_unavailable |-> 2,
         unverified_numbers_withheld |-> 2, visual_numeric_withheld |-> 3]
\* _trusted_answer_has_unverified_visual: by its gate, or by an image in its tool trace, of
\* which no analysis is source_verified.
Visual == {"visual_unverified", "vision_unavailable", "visual_numeric_withheld"}
Marks(r) == r.gate \in Visual \/ r.image
Absent == "absent"
NoRecord == [gate |-> Absent, image |-> FALSE]

Ids == 1..MaxSections
Stay == -1   \* a PATCH without a position

\* No turn ends with unverified_numbers_withheld: agent/service.py does not assign it.  One
\* that falls back to RAG after an image ends with "none" and the image (_fallback_events).
ASSUME WorkspaceAssumption ==
    /\ Safety \subseteq [gate : Visual \cup {"none"}, image : BOOLEAN]
    /\ \A m \in Mixes : m.requests \in 0..MaxRequests
    /\ FirstSections \in 1..MaxSections /\ {MaxSections, MaxRequests} \subseteq Nat

VARIABLES
    sections,  \* the rows of the sections: position, and the inserted texts in the content
    scope,     \* knowledge_base_id of the report
    sources,   \* the references: section and knowledge base they are of
    bound,     \* knowledge_base_id of the conversation
    messages,  \* its messages in the order of their commits
    ledger,    \* the safety state recorded for the answer in each knowledge base
    req, todo, mem, \* per process: its request, the steps it has left, what it has read
    born, started, mix, numeric, \* serial number, bound, and what kind of behaviour this is
    \* history:
    span,      \* what others have committed since the request began
    said,      \* the safety states with which the answer has been recorded
    inserted,  \* what was known of each answer that was inserted
    withdrawn, \* the sources that were deleted
    disordered, skewed, raced \* whether overlapping requests have written past each other

stores == <<sections, scope, sources, bound, messages, ledger>>
control == <<req, todo, mem, born, started, mix, numeric, span>>
history == <<said, inserted, withdrawn, disordered, skewed, raced>>
vars == <<stores, control, history>>
------------------------------------------------------------------------------
(* Requests and their steps *)

Idle == [kind |-> "idle"]
Positions == 0..MaxSections

Requests ==
    [kind : {"create"}, position : Positions]
        \cup [kind : {"update"}, section : Ids, position : Positions \cup {Stay}, rewrites : BOOLEAN]
        \cup [kind : {"delete", "answer"}, section : Ids]
        \cup [kind : {"insert"}, section : Ids, kb : KBs, text : BOOLEAN]
        \cup [kind : {"withdraw"}, source : 1..MaxRequests]
        \cup [kind : {"rescope", "rebind"}, kb : KBs]
        \cup [kind : {"append"}]
        \cup [kind : {"turn"}, kb : KBs, safety : Safety]

\* What a handler awaits, in its order.
Steps(r) ==
    CASE r.kind = "create"   -> <<"report", "order", "commit">>
      [] r.kind = "update"   -> IF r.position = Stay THEN <<"section", "report", "commit">>
                                ELSE <<"section", "report", "order", "commit">>
      [] r.kind = "delete"   -> <<"section", "report", "flush", "order", "commit">>
      [] r.kind = "insert"   -> <<"report", "section", "commit">>
      [] r.kind = "withdraw" -> <<"source", "report", "commit">>
      [] r.kind = "answer"   -> <<"report", "section", "message", "conversation", "ledger", "again", "commit">>
      [] r.kind = "rescope"  -> <<"report", "sources", "commit">>
      [] r.kind = "rebind"   -> <<"conversation", "commit">>
      [] r.kind = "append"   -> <<"conversation", "position", "commit">>
      [] r.kind = "turn"     -> <<"conversation", "ledger", "commit">>

\* The session of a request that has read nothing.
NewRow(position) == [position |-> position, quotes |-> {}]
Blank == [scope |-> Absent, bound |-> Absent, record |-> NoRecord, row |-> NewRow(0), self |-> 0,
          order |-> <<>>, loaded |-> <<>>, top |-> 0, since |-> 0, serial |-> 0, heard |-> {}]

At(p, kind, step) == todo[p] # <<>> /\ Head(todo[p]) = step /\ req[p].kind \in kind

\* A step that only reads.
Reads(p, session) ==
    /\ mem' = [mem EXCEPT ![p] = session] /\ todo' = [todo EXCEPT ![p] = Tail(@)]
    /\ UNCHANGED <<stores, history, req, born, started, mix, numeric, span>>

\* The request is over; changes is what it has committed.
Ends(p, changes) ==
    /\ req' = [req EXCEPT ![p] = Idle] /\ mem' = [mem EXCEPT ![p] = Blank]
    /\ todo' = [todo EXCEPT ![p] = <<>>]
    /\ span' = [q \in Procs |-> IF q = p \/ todo[q] = <<>> THEN {} ELSE span[q] \cup changes]
    /\ UNCHANGED <<born, started, mix, numeric>>

\* An HTTP error, a cancellation, or a commit that fails: nothing is written.  (The thread
\* of a cancelled turn that records goes on: that is a turn that is not abandoned.)
Abandon(p) == todo[p] # <<>> /\ Ends(p, {}) /\ UNCHANGED <<stores, history>>

\* A client names what it has seen.
Known(r) == /\ "section" \in DOMAIN r => r.section <= born
            /\ r.kind = "withdraw" => r.source \in {s.id : s \in sources} \cup withdrawn

Start(p) ==
    /\ todo[p] = <<>> /\ started < mix.requests
    /\ \E r \in Requests :
         /\ r.kind \in mix.kinds /\ Known(r)
         /\ req' = [req EXCEPT ![p] = r] /\ todo' = [todo EXCEPT ![p] = Steps(r)]
    /\ started' = started + 1
    /\ mem' = [mem EXCEPT ![p].since = Len(messages), ![p].serial = started']
    /\ UNCHANGED <<stores, history, born, mix, numeric, span>>
------------------------------------------------------------------------------
(* Reading *)

\* _ordered_sections: by position, then by age; a section stands where as many come before it.
Before(s, t) == \/ sections[s].position < sections[t].position
                \/ sections[s].position = sections[t].position /\ s < t
Ordered(ids) ==
    [i \in 1..Cardinality(ids) |->
        CHOOSE s \in ids : Cardinality({t \in ids : Before(t, s)}) = i - 1]

\* _get_report; the first statement of a creation dates its section.
ReadReport(p) ==
    /\ At(p, {"create"}, "report") /\ born < MaxSections
    /\ born' = born + 1
    /\ mem' = [mem EXCEPT ![p].self = born + 1] /\ todo' = [todo EXCEPT ![p] = Tail(@)]
    /\ UNCHANGED <<stores, history, req, started, mix, numeric, span>>

LoadReport(p) ==
    /\ At(p, {"update", "delete", "insert", "withdraw", "answer", "rescope"}, "report")
    /\ req[p].kind = "insert" => scope = req[p].kb
    /\ Reads(p, [mem[p] EXCEPT !.scope = scope])

\* _get_section.
LoadSection(p) ==
    /\ At(p, {"update", "delete", "insert", "answer"}, "section")
    /\ req[p].section \in DOMAIN sections
    /\ Reads(p, [mem[p] EXCEPT !.row = sections[req[p].section], !.self = req[p].section])

\* The second look of _build_source_reference: the object that was loaded stays.
LookAgain(p) ==
    /\ At(p, {"answer"}, "again") /\ req[p].section \in DOMAIN sections
    /\ Reads(p, mem[p])

\* The row of a deletion that has been flushed.
Held(q) == IF At(q, {"delete"}, "order") \/ At(q, {"delete"}, "commit") THEN {req[q].section} ELSE {}
Free(p, ids) == \A q \in Procs \ {p} : Held(q) \cap ids = {}

\* session.delete and flush: the row is locked and no longer in the session's sight.
FlushDelete(p) ==
    /\ At(p, {"delete"}, "flush") /\ Free(p, {req[p].section})
    /\ Reads(p, mem[p])

\* Mutant: the deletion is not flushed before the order is read.
InSight(p) == DOMAIN sections
\* What a SELECT of the session sees: not the section it has deleted itself.
Seen(p) == DOMAIN sections \ Held(p)

\* A move must find its section (list.remove).
ReadOrder(p) ==
    LET ids == Seen(p)
    IN  /\ At(p, {"create", "update", "delete"}, "order")
        /\ req[p].kind = "update" => req[p].section \in ids
        /\ Reads(p, [mem[p] EXCEPT
               !.order = Ordered(ids),
               !.loaded = [s \in ids |-> IF s = mem[p].self THEN mem[p].row.position
                                         ELSE sections[s].position]])

\* Mutant: a report with sources is given another knowledge base.
InAnyScope(kb) == TRUE
\* _validate_reference_scope.
InScope(kb) == \A s \in sources : s.kb = kb
ReadSources(p) ==
    /\ At(p, {"rescope"}, "sources") /\ InScope(req[p].kb)
    /\ Reads(p, mem[p])

ReadSource(p) ==
    /\ At(p, {"withdraw"}, "source") /\ \E s \in sources : s.id = req[p].source
    /\ Reads(p, mem[p])

ReadMessage(p) == At(p, {"answer"}, "message") /\ messages # <<>> /\ Reads(p, mem[p])

\* The conversation's knowledge base must be the report's, or that of the turn.
ReadConversation(p) ==
    /\ At(p, {"answer", "rebind", "append", "turn"}, "conversation")
    /\ req[p].kind = "answer" => bound = mem[p].scope
    /\ req[p].kind = "turn" => bound = req[p].kb
    /\ Reads(p, [mem[p] EXCEPT !.bound = bound])

\* Mutant: the position of the last message.
LastPosition == IF messages = <<>> THEN 0 ELSE Max({m.position : m \in ToSet(messages)})
\* next_message_position.
NextPosition == IF messages = <<>> THEN 0 ELSE Max({m.position : m \in ToSet(messages)}) + 1
ReadPosition(p) ==
    /\ At(p, {"append"}, "position") /\ Reads(p, [mem[p] EXCEPT !.top = NextPosition])

\* verify_streamed_answer and the refusals after it; _existing_payload.
ReadLedger(p) ==
    /\ At(p, {"answer", "turn"}, "ledger")
    /\ req[p].kind = "answer" => /\ ledger[mem[p].bound] # NoRecord
                                 /\ ~(Marks(ledger[mem[p].bound]) /\ numeric)
    /\ Reads(p, [mem[p] EXCEPT !.record = ledger[mem[p].bound], !.heard = said[mem[p].bound]])
------------------------------------------------------------------------------
(* Writing *)

\* _renumber: the places the request gives to the sections it has read.
Arrangement(p) ==
    LET order == mem[p].order
        others == RemoveFirst(order, mem[p].self)
        i == Min({req[p].position, Len(others)}) + 1
    IN  IF req[p].kind = "delete" THEN order ELSE InsertAt(others, i, mem[p].self)
Place(p, s) == (CHOOSE i \in DOMAIN Arrangement(p) : Arrangement(p)[i] = s) - 1
Dirty(p) == {s \in DOMAIN mem[p].loaded : mem[p].loaded[s] # Place(p, s)}

Renumbered(p, s) == IF s \in Dirty(p) THEN [sections[s] EXCEPT !.position = Place(p, s)] ELSE sections[s]

\* A commit that updates a row which is gone fails (StaleDataError).
Writes(p, ids) == ids \subseteq DOMAIN sections /\ Free(p, ids)

Reordered(p) == disordered' = ("order" \in span[p])

CommitCreate(p) ==
    /\ At(p, {"create"}, "commit") /\ Writes(p, Dirty(p))
    /\ sections' = [s \in DOMAIN sections \cup {mem[p].self} |->
                       IF s = mem[p].self THEN NewRow(Place(p, s))
                       ELSE Renumbered(p, s)]
    /\ Reordered(p) /\ Ends(p, {"order"})
    /\ UNCHANGED <<scope, sources, bound, messages, ledger, said, inserted, withdrawn, skewed, raced>>

\* A PATCH of a section: its place, its content (which the client has written), or both.
CommitUpdate(p) ==
    LET s == req[p].section
        moves == req[p].position # Stay
        renumbered == IF moves THEN [t \in DOMAIN sections |-> Renumbered(p, t)] ELSE sections
    IN  /\ At(p, {"update"}, "commit") /\ Writes(p, {s} \cup (IF moves THEN Dirty(p) ELSE {}))
        /\ sections' = IF req[p].rewrites THEN [renumbered EXCEPT ![s].quotes = {}] ELSE renumbered
        /\ IF moves THEN Reordered(p) /\ Ends(p, {"order"}) ELSE UNCHANGED disordered /\ Ends(p, {})
        /\ UNCHANGED <<scope, sources, bound, messages, ledger, said, inserted, withdrawn, skewed, raced>>

CommitDelete(p) ==
    /\ At(p, {"delete"}, "commit") /\ Writes(p, Dirty(p))
    /\ sections' = [s \in DOMAIN sections \ {req[p].section} |-> Renumbered(p, s)]
    /\ sources' = {s \in sources : s.section # req[p].section}
    /\ Reordered(p) /\ Ends(p, {"order"})
    /\ UNCHANGED <<scope, bound, messages, ledger, said, inserted, withdrawn, skewed, raced>>

\* insert_source_reference, insert_agent_answer_references: the text is appended
\* to what was loaded and comes with its source; create_source_reference has no text.
Inserts(p, text) ==
    LET s == req[p].section
    IN  /\ Writes(p, {s})
        /\ sections' = IF text THEN [sections EXCEPT ![s].quotes = mem[p].row.quotes \cup {mem[p].serial}]
                       ELSE sections
        /\ sources' = sources \cup {[id |-> mem[p].serial, section |-> s, kb |-> mem[p].scope]}
        /\ skewed' = (skewed \/ "scope" \in span[p])
        /\ Ends(p, {"sources"})
        /\ UNCHANGED <<scope, bound, messages, ledger, said, withdrawn, disordered, raced>>

CommitInsert(p) == At(p, {"insert"}, "commit") /\ Inserts(p, req[p].text) /\ UNCHANGED inserted

CommitAnswer(p) ==
    /\ At(p, {"answer"}, "commit") /\ Inserts(p, TRUE)
    /\ inserted' = inserted \cup {[kb |-> mem[p].scope, draft |-> Marks(mem[p].record), heard |-> mem[p].heard]}

CommitWithdraw(p) ==
    /\ At(p, {"withdraw"}, "commit")
    /\ \A s \in sources : s.id = req[p].source => Free(p, {s.section}) \* the cascade holds it
    /\ sources' = {s \in sources : s.id # req[p].source} /\ withdrawn' = withdrawn \cup {req[p].source}
    /\ Ends(p, {})
    /\ UNCHANGED <<sections, scope, bound, messages, ledger, said, inserted, disordered, skewed, raced>>

CommitRescope(p) ==
    /\ At(p, {"rescope"}, "commit")
    /\ scope' = IF req[p].kb # mem[p].scope THEN req[p].kb ELSE scope
    /\ skewed' = ("sources" \in span[p] \/ (skewed /\ "scope" \in span[p]))
    /\ Ends(p, {"scope"})
    /\ UNCHANGED <<sections, sources, bound, messages, ledger, said, inserted, withdrawn, disordered, raced>>

CommitRebind(p) ==
    /\ At(p, {"rebind"}, "commit")
    /\ bound' = IF req[p].kb # mem[p].bound THEN req[p].kb ELSE bound
    /\ Ends(p, {})
    /\ UNCHANGED <<sections, scope, sources, messages, ledger, history>>

CommitAppend(p) ==
    /\ At(p, {"append"}, "commit")
    /\ messages' = Append(messages, [position |-> mem[p].top, since |-> mem[p].since])
    /\ Ends(p, {})
    /\ UNCHANGED <<sections, scope, sources, bound, ledger, history>>

\* Mutant: the last turn overwrites the record.
KeepsNothing(old, new) == FALSE
\* record_streamed_answer: a record is not replaced by one with a less restrictive gate,
\* whatever their tool traces.
Keeps(old, new) == old # NoRecord /\ Rank[old.gate] > Rank[new.gate]
Record(p) ==
    LET kb == req[p].kb
    IN  /\ At(p, {"turn"}, "commit")
        /\ ledger' = IF Keeps(mem[p].record, req[p].safety) THEN ledger
                     ELSE [ledger EXCEPT ![kb] = req[p].safety]
        /\ said' = [said EXCEPT ![kb] = @ \cup {req[p].safety}]
        /\ raced' = IF kb \in span[p] THEN raced \cup {kb} ELSE raced
        /\ Ends(p, {kb})
        /\ UNCHANGED <<sections, scope, sources, bound, messages, inserted, withdrawn, disordered, skewed>>
------------------------------------------------------------------------------
Init ==
    /\ sections = [s \in 1..FirstSections |-> NewRow(s - 1)]
    /\ scope \in KBs /\ bound \in KBs /\ sources = {} /\ messages = <<[position |-> 0, since |-> 0]>>
    /\ ledger = [k \in KBs |-> NoRecord]
    /\ req = [p \in Procs |-> Idle] /\ todo = [p \in Procs |-> <<>>] /\ mem = [p \in Procs |-> Blank]
    /\ born = FirstSections /\ started = 0 /\ mix \in Mixes
    /\ numeric \in (IF "answer" \in mix.kinds THEN BOOLEAN ELSE {FALSE}) \* no matter otherwise
    /\ span = [p \in Procs |-> {}] /\ said = [k \in KBs |-> {}] /\ inserted = {} /\ withdrawn = {}
    /\ disordered = FALSE /\ skewed = FALSE /\ raced = {}

Next ==
    \E p \in Procs :
        \/ Start(p) \/ Abandon(p)
        \/ ReadReport(p) \/ LoadReport(p) \/ LoadSection(p) \/ LookAgain(p) \/ FlushDelete(p) \/ ReadOrder(p)
        \/ ReadSources(p) \/ ReadSource(p) \/ ReadMessage(p) \/ ReadConversation(p) \/ ReadPosition(p)
        \/ ReadLedger(p)
        \/ CommitCreate(p) \/ CommitUpdate(p) \/ CommitDelete(p) \/ CommitInsert(p) \/ CommitAnswer(p)
        \/ CommitWithdraw(p) \/ CommitRescope(p) \/ CommitRebind(p) \/ CommitAppend(p) \/ Record(p)

Spec == Init /\ [][Next]_vars
------------------------------------------------------------------------------
(* Properties *)

Writings == {"order", "scope", "sources"} \cup KBs
TypeOK ==
    /\ DOMAIN sections \subseteq Ids /\ scope \in KBs /\ bound \in KBs
    /\ \A s \in DOMAIN sections : sections[s] \in [position : Nat, quotes : SUBSET (1..MaxRequests)]
    /\ sources \subseteq [id : 1..MaxRequests, section : Ids, kb : KBs]
    /\ messages \in Seq([position : Nat, since : Nat])
    /\ ledger \in [KBs -> Safety \cup {NoRecord}] /\ said \in [KBs -> SUBSET Safety]
    /\ req \in [Procs -> Requests \cup {Idle}]
    /\ \A p \in Procs : todo[p] = <<>> \/ IsSuffix(todo[p], Steps(req[p]))
    /\ started \in 0..MaxRequests /\ born \in FirstSections..MaxSections
    /\ span \in [Procs -> SUBSET Writings] /\ raced \subseteq KBs
\* Sections stand at 0, 1, 2, ... without gap or tie, unless requests that overlapped
\* have arranged them; the next arrangement that overlaps no other puts it right
\* (_renumber, with the deletion flushed before the order is read).
OrderIsDense ==
    ~disordered => {sections[s].position : s \in DOMAIN sections} = 0..(Cardinality(DOMAIN sections) - 1)

\* A source belongs to a section that is there and to the knowledge base of the report,
\* and a text inserted into a section has its source there, unless it was withdrawn: for
\* insertions and changes of the report that do not overlap (_validate_reference_scope,
\* _build_source_reference, one commit for text and sources).
SourcesHold ==
    /\ \A s \in sources : s.section \in DOMAIN sections /\ (~skewed => s.kb = scope)
    /\ \A s \in DOMAIN sections : \A i \in sections[s].quotes \ withdrawn :
           \E source \in sources : source.id = i /\ source.section = s

\* An answer that is inserted has been told by the server for that knowledge base.  It is
\* marked as a draft and has no numbers if every turn told it from an unverified image, or
\* one with a gate that says so: the gate outlasts turns that tell it with none, unless two
\* turns recorded it at once (record_streamed_answer, verify_streamed_answer).
Warned(heard, kb) ==
    \/ \A h \in heard : Marks(h)
    \/ kb \notin raced /\ \E h \in heard : h.gate \in Visual
InsertedIsVouched ==
    \A i \in inserted : i.heard # {} /\ (Warned(i.heard, i.kb) => i.draft /\ ~numeric)

\* A message whose request began when another one was stored stands after it
\* (next_message_position).
MessagesKeepOrder ==
    \A i, j \in DOMAIN messages : i <= messages[j].since => messages[i].position < messages[j].position
=============================================================================
