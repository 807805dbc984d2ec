---------------------------- MODULE Conversation ----------------------------
(***************************************************************************)
(* The stored messages of one conversation: requests that store a question *)
(* and later its answer and the trace of the run behind it, compactions    *)
(* that summarise the older messages around a call to a model, deletions   *)
(* from a message on, regeneration of the last answer, and restarts.       *)
(*                                                                         *)
(* Ids grow and are never used again (AUTOINCREMENT); created_at is in     *)
(* whole seconds, so messages of one second are told apart by their id.    *)
(***************************************************************************)
EXTENDS Integers, FiniteSets

CONSTANTS
  Requests, NoRequest,   \* execute requests on this conversation
  Compactors,            \* calls of Compact that may be in progress together
  KeepRecent,                  \* CompactKeepRecent
  Threshold,             \* DefaultCompactThreshold
  LastSecond,            \* bound: seconds that pass
  MaxByHand,             \* bound: compactions and deletions the user asks for
  MaxDeaths              \* bound: restarts

ASSUME ConversationAssumption ==
  /\ NoRequest \notin Requests
  /\ KeepRecent \in Nat \ {0} /\ Threshold \in Nat
  /\ {LastSecond, MaxByHand, MaxDeaths} \subseteq Nat

VARIABLES
  messages,       \* the rows of the conversation
  lastId,         \* the last id given out
  second,         \* the clock, in the seconds created_at keeps
  request,        \* each execute request: where it is, and its answer's id
  compaction,     \* each call of Compact
  compactionsDue, \* calls of Compact that requests have started
  byHand, deaths  \* how often the user compacted or deleted, and the process restarted

conversationVars == <<messages, lastId, second, request, compaction,
                      compactionsDue, byHand, deaths>>

MaxId == 2 * Cardinality(Requests) + MaxByHand + Cardinality(Requests) + MaxDeaths
Ids == 1 .. MaxId
Roles == {"user", "assistant", "system"}
RequestSteps == {"none", "running", "answered", "traced", "dead"}

ConversationTypeOK ==
  /\ messages \subseteq
       [id : Ids, role : Roles, at : Int,
        into : Ids \cup {0},                     \* compacted_into
        trace : Requests \cup {NoRequest},       \* dag_trace: which run's
        by : Requests \cup {NoRequest},          \* who stored it, and what a
        from : SUBSET Ids]                       \* summary was made from: not columns
  /\ \A m, n \in messages : m.id = n.id => m = n
  /\ \A m \in messages : m.id <= lastId
  /\ lastId \in Nat /\ second \in 0 .. LastSecond
  /\ request \in [Requests -> [pc : RequestSteps, answer : Ids \cup {0}]]
  /\ compaction \in [Compactors ->
       [pc : {"none", "asking", "written"}, before : Int, id : Ids \cup {0},
        reads : SUBSET Ids]]
  /\ compactionsDue \in Nat
  /\ byHand \in 0 .. MaxByHand /\ deaths \in 0 .. MaxDeaths

NoCompaction == [pc |-> "none", before |-> 0, id |-> 0, reads |-> {}]

ConversationInit ==
  /\ messages = {} /\ lastId = 0 /\ second = 0
  /\ request = [r \in Requests |-> [pc |-> "none", answer |-> 0]]
  /\ compaction = [c \in Compactors |-> NoCompaction]
  /\ compactionsDue = 0
  /\ byHand = 0 /\ deaths = 0

-----------------------------------------------------------------------------
\* Reading order: by created_at, which the index settles by id.
Precedes(m, n) == m.at < n.at \/ (m.at = n.at /\ m.id < n.id)

After(m, rows) == {n \in rows : Precedes(m, n)}
Newest(k, rows) == {m \in rows : Cardinality(After(m, rows)) < k}
LastOf(rows) == Newest(1, rows)

\* What is sent to a model, and what may still be marked: GetMessages,
\* GetRecentMessages.
LiveRows == {m \in messages : m.into = 0}

Row(role, at, r, reads) ==
  [id |-> lastId + 1, role |-> role, at |-> at, into |-> 0,
   trace |-> NoRequest, by |-> r, from |-> reads]

Appends(role, r) ==
  /\ messages' = messages \cup {Row(role, second, r, {})}
  /\ lastId' = lastId + 1

DeletedFrom(id) == {m \in messages : m.id < id}

\* SetDAGTrace: the message is named, and one that is gone is not written.
TracedOnNewestAnswer(r, id) ==
  LET answers == LastOf({m \in messages : m.role = "assistant"})
  IN  {[m EXCEPT !.trace = IF m \in answers THEN r ELSE m.trace] : m \in messages}

TracedOn(r, id) ==
  {[m EXCEPT !.trace = IF m.id = id THEN r ELSE m.trace] : m \in messages}

-----------------------------------------------------------------------------
(***************************************************************************)
(* The execute handler.                                                    *)
(***************************************************************************)
NothingElse == UNCHANGED <<second, compaction, byHand, deaths>>

Reaches(r, pc) == request' = [request EXCEPT ![r].pc = pc]

\* The question is stored before anything else is looked at: a mode the
\* handler does not know is refused with the question already written.
StoresQuestion(r) ==
  /\ request[r].pc = "none"
  /\ Appends("user", r)
  /\ Reaches(r, "running") \/ Reaches(r, "dead")
  /\ UNCHANGED compactionsDue
  /\ NothingElse

\* Regenerate: everything from the message after the last question on is
\* deleted, and the question is asked again without being stored.
Regenerates(r) ==
  /\ request[r].pc = "none"
  /\ \E q \in LastOf({m \in LiveRows : m.role = "user"}) :
       LET later == After(q, LiveRows)
           next == {m \in later : After(m, later) = later \ {m}}
       IN  messages' = IF later = {} THEN messages
                       ELSE UNION {DeletedFrom(m.id) : m \in next}
  /\ Reaches(r, "running")
  /\ UNCHANGED <<lastId, compactionsDue>>
  /\ NothingElse

\* A run reports an answer, a failure or a notice that there was none.  The
\* count takes in the messages already compacted.
StoresReply(r) ==
  /\ request[r].pc = "running"
  /\ Appends("assistant", r)
  /\ request' = [request EXCEPT ![r] = [pc |-> "answered", answer |-> lastId']]
  /\ compactionsDue' = compactionsDue
                       + (IF Cardinality(messages') > Threshold THEN 1 ELSE 0)
  /\ NothingElse

\* The chat and vision lanes store a reply only if it has text.
RepliesNothing(r) ==
  /\ request[r].pc = "running"
  /\ Reaches(r, "dead")
  /\ UNCHANGED <<messages, lastId, compactionsDue>>
  /\ NothingElse

\* The handler saves the run's own trace, and the browser posts the nodes it
\* watched, in either order and late.
SavesTrace(r) ==
  /\ request[r].pc \in {"answered", "traced"}
  /\ messages' = TracedOn(r, request[r].answer)
  /\ Reaches(r, "traced")
  /\ UNCHANGED <<lastId, compactionsDue>>
  /\ NothingElse

-----------------------------------------------------------------------------
(***************************************************************************)
(* Compact: load, summarise outside any transaction, write the summary,    *)
(* mark what it stands for.                                                *)
(***************************************************************************)
Keeps == Newest(KeepRecent, LiveRows)
Oldest(rows) == {m \in rows : After(m, rows) = rows \ {m}}

ByHand == byHand < MaxByHand /\ byHand' = byHand + 1
StartedByRequest == compactionsDue > 0 /\ compactionsDue' = compactionsDue - 1

LoadsOldMessages(c) ==
  /\ compaction[c].pc = "none"
  /\ \/ StartedByRequest /\ UNCHANGED byHand
     \/ ByHand /\ UNCHANGED compactionsDue
  /\ compaction' =
       IF Cardinality(LiveRows) <= KeepRecent THEN compaction
       ELSE [compaction EXCEPT ![c] =
              [pc |-> "asking", id |-> 0,
               before |-> (CHOOSE m \in Oldest(Keeps) : TRUE).at,
               reads |-> {m.id : m \in LiveRows \ Keeps}]]
  /\ UNCHANGED <<messages, lastId, second, request, deaths>>

WritesSummary(c) ==
  /\ compaction[c].pc = "asking"
  /\ messages' = messages \cup
       {Row("system", compaction[c].before - 1, NoRequest, compaction[c].reads)}
  /\ lastId' = lastId + 1
  /\ compaction' = [compaction EXCEPT ![c].pc = "written", ![c].id = lastId + 1]
  /\ UNCHANGED <<second, request, compactionsDue, byHand, deaths>>

\* The call to the model fails.
SummaryFails(c) ==
  /\ compaction[c].pc = "asking"
  /\ compaction' = [compaction EXCEPT ![c] = NoCompaction]
  /\ UNCHANGED <<messages, lastId, second, request, compactionsDue, byHand, deaths>>

Marked(id) ==
  {[m EXCEPT !.into = IF m \in LiveRows \ Keeps /\ m.id # id THEN id ELSE m.into] :
     m \in messages}

MarksCompacted(c) ==
  /\ compaction[c].pc = "written"
  /\ messages' = Marked(compaction[c].id)
  /\ compaction' = [compaction EXCEPT ![c] = NoCompaction]
  /\ UNCHANGED <<lastId, second, request, compactionsDue, byHand, deaths>>

-----------------------------------------------------------------------------
\* The user deletes a message and everything after it, by id.
DeletesFrom(id) ==
  /\ ByHand
  /\ messages' = DeletedFrom(id)
  /\ UNCHANGED <<lastId, second, request, compaction, compactionsDue, deaths>>

SecondPasses ==
  /\ second < LastSecond /\ second' = second + 1
  /\ UNCHANGED <<messages, lastId, request, compaction, compactionsDue, byHand, deaths>>

\* A crash ends every run and compaction.  The new process closes the turn of
\* a conversation whose last message is a question.
EndsByQuestion == \E m \in LastOf(messages) : m.role = "user"

CrashesAndRestarts ==
  /\ deaths < MaxDeaths /\ deaths' = deaths + 1
  /\ request' = [r \in Requests |->
       IF request[r].pc = "none" THEN request[r] ELSE [request[r] EXCEPT !.pc = "dead"]]
  /\ compaction' = [c \in Compactors |-> NoCompaction]
  /\ compactionsDue' = 0
  /\ IF EndsByQuestion THEN Appends("assistant", NoRequest)
                       ELSE UNCHANGED <<messages, lastId>>
  /\ UNCHANGED <<second, byHand>>

ConversationNext ==
  \/ \E r \in Requests :
        \/ StoresQuestion(r) \/ Regenerates(r)
        \/ StoresReply(r) \/ RepliesNothing(r) \/ SavesTrace(r)
  \/ \E c \in Compactors :
        \/ LoadsOldMessages(c) \/ WritesSummary(c) \/ SummaryFails(c)
        \/ MarksCompacted(c)
  \/ \E m \in messages : DeletesFrom(m.id)
  \/ SecondPasses \/ CrashesAndRestarts

ConversationSpec == ConversationInit /\ [][ConversationNext]_conversationVars

-----------------------------------------------------------------------------
(***************************************************************************)
(* Properties.                                                             *)
(***************************************************************************)
\* A trace is only ever on the answer of the run it is the trace of, however
\* many runs answer meanwhile, whatever is deleted, and however late the
\* browser posts its copy (SetDAGTrace, handleSaveTrace).
TraceOnItsAnswer ==
  \A m \in messages : m.trace # NoRequest => m.trace = m.by /\ m.role = "assistant"

\* No conversation comes back from a restart with a question that nothing will
\* answer, even when the newest row by id is a summary, which stands before
\* the question in reading order (ReconcileDanglingTurns).
RestartClosesTurn ==
  deaths' # deaths => ~ (\E m \in LastOf(messages) : m.role = "user")'

\* A message belongs to one summary for good: a second compaction, of later
\* messages or at the same time, does not reassign it (MarkCompacted).
MarkedOnce ==
  \A m \in messages : m.into # 0 =>
    \A n \in messages' : n.id = m.id => n.into = m.into

\* What requests, restarts and compactions write stays right while rows are
\* added and deleted: a trace is on its own answer, an open turn is closed, a
\* summarised row keeps its summary.
HistoryIsSettled ==
  [][TraceOnItsAnswer' /\ RestartClosesTurn /\ MarkedOnce]_conversationVars

\* Every message that is no longer sent to a model is stood for by a summary
\* that exists and was made from it (MarkCompacted's description,
\* compact.go:88).  The model refutes it in three ways: messages arrive during
\* the call to the model, the summary is deleted with later messages because
\* its id is larger than theirs, and two compactions mark each other's
\* summaries.
StoodFor ==
  \A m \in messages :
    m.into # 0 => \E s \in messages : s.id = m.into /\ m.id \in s.from

\* A conversation that ends with a question has a run in progress: the view
\* reads it as one, and a query that cannot complete still reports that it
\* failed (api.go:529).  The model refutes it: an unknown mode is refused with
\* the question stored, and an empty reply of the chat lane is not stored.
QuestionHasRun ==
  EndsByQuestion => \E r \in Requests : request[r].pc = "running"
=============================================================================
