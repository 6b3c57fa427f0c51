---------------------------- MODULE ModelContext ----------------------------
(***************************************************************************)
(* What the model is shown.  A Thread's turns leave a public ledger and a  *)
(* private provider transcript; each turn rebuilds the messages of its     *)
(* requests from the transcript, or from the ledger where the transcript   *)
(* does not represent every prior turn, and compacts them.  Clients send   *)
(* messages, answer the actions a parked turn waits for and interrupt.     *)
(* Which turn runs when, and its retries, are SessionRuntime's; here a     *)
(* turn is what it adds to the conversation.                               *)
(*                                                                         *)
(* A block is its type and what it is of: <<s>> the client message with    *)
(* sequence s, <<t, r>> the text of round r of the turn of t, <<t, r, k>>  *)
(* the public id and <<t, r, k, 0>> the provider's id of its k-th tool     *)
(* use.  Sizes are left out: a request may be found too large at any time  *)
(* and cut anywhere.                                                       *)
(* Sources: internal/temporal/activities.go (PrepareTurn), context.go,     *)
(* agent_workflow.go, agent_workflow_tools.go, internal/pg/transcript.go,  *)
(* context_snapshots.go, store.go, internal/domain/message.go, context.go, *)
(* internal/agentruntime/skills.go, agentcore.go.                          *)
(***************************************************************************)
EXTENDS SequencesExt

CONSTANTS
    ToolBatches,       \* the tool uses of one response: use, skill, ask, custom
    MaxTexts,          \* messages clients send
    MaxStops,          \* interrupts clients send
    MaxToolRounds,     \* model responses of one turn
    MaxBarriers,       \* turns that park
    MaxCompactions,    \* compactions
    MaxPrepareFaults   \* executions of PrepareTurn whose reply is lost

VARIABLES
    ledger,         \* events: type, trigger of the turn that wrote it or 0, and id
    handled,        \* events with processed_at
    awaited,        \* pending_actions: the event that claimed each, or 0
    rows,           \* provider_transcript_turns
    snapshots,      \* thread_context_snapshots: messages by trigger
    cturn,          \* the turn under way
    compactions, prepareFaults

contextVars ==
    <<ledger, handled, awaited, rows, snapshots, cturn, compactions, prepareFaults>>

Block(type, of) == [type |-> type, of |-> of]
Message(role, content) == [role |-> role, content |-> content]
Entry(type, turn, id) == [type |-> type, turn |-> turn, id |-> id]

UseTypes == {"use", "skill", "ask", "custom"}

ASSUME ContextAssumption ==
    /\ ToolBatches \subseteq Seq(UseTypes)
    /\ {MaxTexts, MaxStops, MaxToolRounds, MaxBarriers, MaxCompactions, MaxPrepareFaults} \subseteq Nat

ToolResults == {"toolresult", "result"}

\* drivesPreparedModelTurn
Drives == {"message", "result", "allow", "deny"}

NoContextTurn ==
    [pc |-> "idle", trigger |-> 0, res |-> {}, uses |-> FALSE, msgs |-> <<>>, delta |-> <<>>,
     out |-> <<>>, maps |-> {}, batch |-> <<>>, acts |-> {}, round |-> 0, ask |-> "none"]

\* A new Session, or one whose first turn was recorded before transcripts were.
ContextInit ==
    /\ \/ ledger = <<>> /\ handled = {}
       \/ /\ ledger = <<Entry("message", 0, <<1>>), Entry("answer", 1, <<1, 1>>)>>
          /\ handled = {1}
    /\ awaited = [a \in {} |-> 0]
    /\ rows = <<>>
    /\ snapshots = [t \in {} |-> <<>>]
    /\ cturn = NoContextTurn
    /\ compactions = 0 /\ prepareFaults = 0

\* A finite set as a sequence, in the order that Before says.
Ordered(S, Before(_, _)) ==
    [i \in 1 .. Cardinality(S) |->
        CHOOSE x \in S : Cardinality({y \in S : Before(y, x)}) = i - 1]

-----------------------------------------------------------------------------
(* Messages                                                                *)

\* AppendMerging, appendProviderMessages: a message of the role of the last one
\* is folded into it, an empty one is left out.
AppendMerging(base, added) ==
    FoldLeft(LAMBDA out, m :
        IF m.content = <<>> THEN out
        ELSE IF out # <<>> /\ Last(out).role = m.role
          THEN [out EXCEPT ![Len(out)].content = @ \o m.content]
        ELSE Append(out, m), base, added)

BlocksOf(msgs) == FoldLeft(LAMBDA bs, m : bs \o m.content, <<>>, msgs)
Having(msgs, types) == {b \in ToSet(BlocksOf(msgs)) : b.type \in types}
OfAll(blocks) == UNION {b.of : b \in blocks}

\* What ProjectMessages makes of one event.
Projected(e, answered, seen) ==
    CASE e.type = "message" -> <<Message("user", <<Block("text", {e.id})>>)>>
      [] e.type = "answer"  -> <<Message("assistant", <<Block("text", {e.id})>>)>>
      [] e.type \in UseTypes /\ e.id \in answered ->
           <<Message("assistant", <<Block("use", {e.id})>>)>>
      [] e.type \in ToolResults /\ e.id \in seen ->
           <<Message("user", <<Block("result", {e.id})>>)>>
      [] OTHER -> <<>>

ProjectMessages(events) ==
    LET answered == {e.id : e \in {x \in ToSet(events) : x.type \in ToolResults}}
        seen     == {e.id : e \in {x \in ToSet(events) : x.type \in UseTypes}}
    IN  AppendMerging(<<>>,
          FoldLeft(LAMBDA ms, e : ms \o Projected(e, answered, seen), <<>>, events))

\* priorProcessedModelTriggers
Priors(t) == {s \in handled : s < t /\ ledger[s].type \in Drives}

\* HistoryThrough: each prior trigger with the output its turn committed.
HistoryThrough(t) ==
    FoldLeft(LAMBDA h, s : h \o <<ledger[s]>> \o SelectSeq(ledger, LAMBDA e : e.turn = s),
             <<>>, Ordered(Priors(t), <)) \o <<ledger[t]>>

-----------------------------------------------------------------------------
(* Compaction                                                              *)

HasToolResult(m) == Having(<<m>>, {"result", "error"}) # {}

\* A tool result stays next to the use it answers.
LegalCut(msgs, dropped) ==
    IF dropped > 0 /\ HasToolResult(msgs[dropped + 1]) THEN dropped - 1 ELSE dropped

\* CompactMessages: a summary of the messages before the cut, and the rest.
\* Trimming of an oversized result keeps its block.
CompactMessages(msgs, dropped) ==
    LET cut     == LegalCut(msgs, dropped)
        suffix  == SubSeq(msgs, cut + 1, Len(msgs))
        summary == <<Block("summary", OfAll(ToSet(BlocksOf(SubSeq(msgs, 1, cut)))))>>
    IN  IF cut = 0 THEN msgs
        ELSE IF Head(suffix).role = "user"
          THEN [suffix EXCEPT ![1].content = summary \o @]
        ELSE <<Message("user", summary)>> \o suffix

\* ReattachRuntimeSkillInjections
ReattachSkills(full, msgs) ==
    LET lost == SetToSeq(Having(full, {"skill"}) \ Having(msgs, {"skill"}))
        last == Len(msgs)
    IN  IF lost = <<>> THEN msgs
        ELSE IF msgs[last].role = "assistant"
          THEN Append(msgs, Message("user", lost))
        ELSE IF HasToolResult(msgs[last])
          THEN [msgs EXCEPT ![last].content = @ \o lost]
        ELSE [msgs EXCEPT ![last].content = lost \o @]

\* prepareRequestContext: dropped is 0 when the request is not too large.
PrepareRequestContext(msgs, dropped) ==
    IF dropped = 0 THEN msgs ELSE ReattachSkills(msgs, CompactMessages(msgs, dropped))

\* where the request may be cut
Cuts(msgs) == IF compactions = MaxCompactions THEN {0} ELSE 0 .. (Len(msgs) - 1)

-----------------------------------------------------------------------------
(* Clients                                                                 *)

Count(type) == Cardinality({s \in DOMAIN ledger : ledger[s].type = type})

\* What a client sends during a turn is read when it completes (and an interrupt
\* whenever the turn looks): where in the turn it arrives makes no difference, so
\* messages arrive before the completion and interrupts at the beginning.
AdmitText ==
    /\ cturn.pc \in {"idle", "finish"} /\ Count("message") < MaxTexts
    /\ ledger' = Append(ledger, Entry("message", 0, <<Len(ledger) + 1>>))
    /\ UNCHANGED <<handled, awaited, rows, snapshots, cturn, compactions, prepareFaults>>

\* A client's result is processed on receipt, a confirmation is not.
Resolutions(a) ==
    IF \E s \in DOMAIN ledger : ledger[s] = Entry("custom", ledger[s].turn, a)
      THEN {"result"} ELSE {"allow", "deny"}

AdmitResolution(a, answer) ==
    /\ cturn.pc = "idle" /\ awaited[a] = 0
    /\ ledger' = Append(ledger, Entry(answer, 0, a))
    /\ awaited' = [awaited EXCEPT ![a] = Len(ledger')]
    /\ handled' = IF answer = "result" THEN handled \cup {Len(ledger')} ELSE handled
    /\ UNCHANGED <<rows, snapshots, cturn, compactions, prepareFaults>>

AdmitStop ==
    /\ cturn.pc = "prepared" /\ Count("interrupt") < MaxStops
    /\ ledger' = Append(ledger, Entry("interrupt", 0, <<Len(ledger) + 1>>))
    /\ UNCHANGED <<handled, awaited, rows, snapshots, cturn, compactions, prepareFaults>>

\* FirstUnprocessedInterruptAfter the trigger of the turn; 0 when there is none
StopOf(t) ==
    LET later == {s \in DOMAIN ledger \ handled : ledger[s].type = "interrupt" /\ s > t}
    IN  IF later = {} THEN 0 ELSE CHOOSE s \in later : \A u \in later : s <= u

-----------------------------------------------------------------------------
(* PrepareTurn                                                             *)

\* LoadThreadProviderTranscript
Transcript == FoldLeft(LAMBDA ms, r : AppendMerging(ms, r.messages), <<>>, rows)
Represented == UNION {rows[i].represents : i \in DOMAIN rows}
Mappings == UNION {rows[i].maps : i \in DOMAIN rows}

\* Mutant: the transcript is used although a prior turn is not in it.
CoversAnyway(t, res) == TRUE

\* transcriptCoversPriorTurns
Covers(t, res) == Priors(t) \ (res \cup {t}) \subseteq Represented

Mapped(a) == \E m \in Mappings : m[1] = a
ProviderId(a) == (CHOOSE m \in Mappings : m[1] = a)[2]

UsesTranscript(t, res) ==
    /\ Covers(t, res)
    /\ res # {} => \A a \in DOMAIN awaited : Mapped(a)

\* the new input of the turn; what a resumed turn adds is known when it resumes
DeltaOf(t, res) == IF res = {} THEN ProjectMessages(<<ledger[t]>>) ELSE <<>>

\* The ledger without the actions a resumed turn answers and their answers
\* (withoutResumeEvents), or the transcript.
FullMessages(t, res) ==
    IF UsesTranscript(t, res) THEN AppendMerging(Transcript, DeltaOf(t, res))
    ELSE ProjectMessages(IF res = {} THEN HistoryThrough(t)
           ELSE SelectSeq(HistoryThrough(t), LAMBDA e : e.id \notin DOMAIN awaited))

\* GetThreadContextSnapshotForTrigger: the first committed projection is
\* authoritative for a retry of the Activity.
PreparedMessages(t, projected) ==
    IF t \in DOMAIN snapshots THEN snapshots[t] ELSE projected

PrepareTurn(t, res, dropped) ==
    LET full      == FullMessages(t, res)
        projected == PrepareRequestContext(full, dropped)
        uses      == UsesTranscript(t, res)
    IN  /\ dropped \in Cuts(full)
        /\ cturn' = [NoContextTurn EXCEPT !.pc = "prepared", !.trigger = t, !.res = res,
                       !.uses = uses, !.msgs = PreparedMessages(t, projected),
                       !.delta = IF uses THEN DeltaOf(t, res) ELSE <<>>]
        /\ snapshots' =
             IF t \in DOMAIN snapshots \/ projected = full THEN snapshots
             ELSE [u \in DOMAIN snapshots \cup {t} |->
                     IF u = t THEN projected ELSE snapshots[u]]
        /\ compactions' = IF dropped = 0 THEN compactions ELSE compactions + 1
        /\ UNCHANGED <<ledger, handled, awaited, rows>>

\* The barrier of a parked turn resumes when it is fully claimed, and no
\* message overtakes it.
StartTurn ==
    /\ cturn.pc = "idle" /\ UNCHANGED prepareFaults
    /\ IF DOMAIN awaited = {}
         THEN LET waiting == {s \in DOMAIN ledger \ handled : ledger[s].type = "message"}
              IN  \E t \in waiting, dropped \in 0 .. Len(ledger) :
                    (\A u \in waiting : t <= u) /\ PrepareTurn(t, {}, dropped)
         ELSE LET claims == {awaited[a] : a \in DOMAIN awaited}
              IN  \E t \in claims, dropped \in 0 .. Len(ledger) :
                    /\ 0 \notin claims /\ \A u \in claims : u <= t
                    /\ PrepareTurn(t, claims, dropped)

\* The reply of PrepareTurn is lost; the Activity runs again.
PrepareAgain ==
    /\ cturn.pc = "prepared" /\ prepareFaults < MaxPrepareFaults
    /\ prepareFaults' = prepareFaults + 1
    /\ \E dropped \in 0 .. Len(ledger) : PrepareTurn(cturn.trigger, cturn.res, dropped)

-----------------------------------------------------------------------------
(* The turn                                                                *)

Rest == <<handled, awaited, rows, snapshots, prepareFaults>>
End(state, ask) == cturn' = [state EXCEPT !.pc = "finish", !.ask = ask]
Stopped == StopOf(cturn.trigger) # 0

\* prepareResumeActions: the actions of the barrier in ledger order
ResumeActions ==
    IF cturn.res = {} THEN <<>>
    ELSE LET place(a) == CHOOSE s \in DOMAIN ledger :
                           ledger[s].id = a /\ ledger[s].type \in UseTypes
         IN  Ordered(DOMAIN awaited, LAMBDA a, b : place(a) < place(b))

AnswerTo(a) == ledger[awaited[a]].type

\* the id the model knows the action by
ResumeId(a) == IF cturn.uses THEN ProviderId(a) ELSE a

\* what the resumed turn publishes for the actions before the k-th
ResumeOutput(k) ==
    LET ran == Ordered({i \in 1 .. k - 1 : AnswerTo(ResumeActions[i]) # "result"}, <)
    IN  [i \in DOMAIN ran |-> Entry("toolresult", cturn.trigger, ResumeActions[ran[i]])]

\* resumeWorkflowTurn: the barrier's answers as one round of tool results.  The
\* ledger's projection left the uses out, so they are added, too.
Resume ==
    LET acts    == ResumeActions
        uses    == [k \in DOMAIN acts |-> Block("use", {ResumeId(acts[k])})]
        results == Message("user", [k \in DOMAIN acts |-> Block("result", {ResumeId(acts[k])})])
        asked   == IF cturn.uses THEN <<>> ELSE <<Message("assistant", uses)>>
    IN  /\ cturn.pc = "prepared"
        /\ cturn' = IF acts = <<>> THEN [cturn EXCEPT !.pc = "call"]
                    ELSE [cturn EXCEPT
                      !.pc = "call", !.out = ResumeOutput(Len(acts) + 1),
                      !.msgs = AppendMerging(@, asked \o <<results>>),
                      !.delta = IF cturn.uses THEN AppendMerging(@, <<results>>) ELSE @]
        /\ UNCHANGED <<ledger, Rest, compactions>>

\* The execution of an approved tool fails, or is interrupted with or without
\* its result.
ResumeStops ==
    /\ cturn.pc = "prepared"
    /\ \E k \in DOMAIN ResumeActions :
         /\ AnswerTo(ResumeActions[k]) = "allow"
         /\ \/ Stopped /\ \E n \in {k, k + 1} :
                  End([cturn EXCEPT !.out = ResumeOutput(n)], "stopped")
            \/ End([cturn EXCEPT !.out = ResumeOutput(k)], "fail")
    /\ UNCHANGED <<ledger, Rest, compactions>>

\* A request that is too large, or that the provider finds too large, is
\* compacted before it is sent (again).
CompactRequest ==
    /\ cturn.pc = "call"
    /\ \E dropped \in Cuts(cturn.msgs) \ {0} :
         cturn' = [cturn EXCEPT !.msgs = PrepareRequestContext(@, dropped)]
    /\ compactions' = compactions + 1
    /\ UNCHANGED <<ledger, Rest>>

\* The turn after the model's response was added to its transcript
Responded(message) ==
    [cturn EXCEPT !.round = @ + 1,
                  !.delta = IF cturn.uses THEN AppendMerging(@, <<message>>) ELSE @]

Text == Message("assistant", <<Block("text", {<<cturn.trigger, cturn.round + 1>>})>>)
More == Message("user", <<Block("more", {})>>)

\* end_turn
CallEnds ==
    /\ cturn.pc = "call"
    /\ End([Responded(Text) EXCEPT
             !.out = Append(@, Entry("answer", cturn.trigger, <<cturn.trigger, cturn.round + 1>>))],
           "done")
    /\ UNCHANGED <<ledger, Rest, compactions>>

\* pause_turn and max_tokens: the response is continued, the latter by a prompt
CallContinues(prompt) ==
    /\ cturn.pc = "call" /\ cturn.round + 1 < MaxToolRounds
    /\ cturn' = [Responded(Text) EXCEPT
         !.out = Append(@, Entry("answer", cturn.trigger, <<cturn.trigger, cturn.round + 1>>)),
         !.msgs = AppendMerging(@, <<Text>> \o prompt),
         !.delta = IF cturn.uses THEN AppendMerging(@, prompt) ELSE @]
    /\ UNCHANGED <<ledger, Rest, compactions>>

PublicId(k) == <<cturn.trigger, cturn.round, k>>
ProviderUse(k) == PublicId(k) \o <<0>>
Uses(state, batch) ==
    Message("assistant", [k \in DOMAIN batch |->
        Block("use", {<<state.trigger, state.round + 1, k, 0>>})])

Executable(batch) == {k \in DOMAIN batch : batch[k] \in {"use", "skill"}}
Parked == {ledger[s].turn : s \in {u \in DOMAIN ledger : ledger[u].type \in {"ask", "custom"}}}

\* tool_use: the response and its mappings are recorded, planToolBatch publishes
\* the uses.
CallUsesTools(batch) ==
    LET r == cturn.round + 1
    IN  /\ cturn.pc = "call" /\ r < MaxToolRounds
        /\ Executable(batch) # DOMAIN batch => Cardinality(Parked) < MaxBarriers
        /\ cturn' = [Responded(Uses(cturn, batch)) EXCEPT
             !.pc = "tools", !.batch = batch,
             !.maps = IF cturn.uses
                        THEN @ \cup {<<<<cturn.trigger, r, k>>, <<cturn.trigger, r, k, 0>>>> :
                                       k \in DOMAIN batch}
                        ELSE @,
             !.out = @ \o [k \in DOMAIN batch |->
                             Entry(batch[k], cturn.trigger, <<cturn.trigger, r, k>>)]]
        /\ UNCHANGED <<ledger, Rest, compactions>>

\* A response that cannot be used: a tool use with another stop_reason.
CallFails(batch) ==
    /\ cturn.pc = "call"
    /\ End(Responded(Uses(cturn, batch)), "fail")
    /\ UNCHANGED <<ledger, Rest, compactions>>

\* exhaustModelRetries, or an interrupt before a response
CallGivesUp ==
    /\ cturn.pc = "call"
    /\ \/ End(cturn, "exhausted")
       \/ Stopped /\ End(cturn, "stopped")
    /\ UNCHANGED <<ledger, Rest, compactions>>

\* The results of the executable uses among the first n, then what Skills inject
ResultBlocks(n) ==
    LET done    == Ordered(Executable(cturn.batch) \cap 1 .. n, <)
        loaded  == SelectSeq(done, LAMBDA k : cturn.batch[k] = "skill")
    IN  [i \in DOMAIN done |-> Block("result", {ProviderUse(done[i])})]
          \o [i \in DOMAIN loaded |-> Block("skill", {PublicId(loaded[i])})]

ResultEntries(n) ==
    LET done == Ordered(Executable(cturn.batch) \cap 1 .. n, <)
    IN  [i \in DOMAIN done |-> Entry("toolresult", cturn.trigger, PublicId(done[i]))]

\* executeToolBatch: parked uses have no result, and no message of the turn.
ExecuteTools ==
    LET batch   == cturn.batch
        results == Message("user", ResultBlocks(Len(batch)))
        acts    == {PublicId(k) : k \in DOMAIN batch \ Executable(batch)}
        state   == [cturn EXCEPT
                      !.out = @ \o ResultEntries(Len(batch)), !.acts = acts,
                      !.delta = IF cturn.uses THEN AppendMerging(@, <<results>>) ELSE @]
        asked   == Message("assistant",
                     [k \in DOMAIN batch |-> Block("use", {ProviderUse(k)})])
    IN  /\ cturn.pc = "tools"
        /\ IF acts # {} THEN End(state, "done")
           ELSE cturn' = [state EXCEPT !.pc = "call",
                            !.msgs = AppendMerging(@, <<asked, results>>)]
        /\ UNCHANGED <<ledger, Rest, compactions>>

\* closeInterruptedProviderToolRound: completed tools keep their results, the
\* others are answered by an error.
CloseToolRound(n) ==
    [k \in DOMAIN cturn.batch |->
        Block(IF k \in Executable(cturn.batch) /\ k <= n THEN "result" ELSE "error",
              {ProviderUse(k)})]

\* The round is interrupted after its first n uses, or a tool fails.
ToolsStop ==
    /\ cturn.pc = "tools"
    /\ \/ /\ Stopped
          /\ \E n \in 0 .. Len(cturn.batch) :
               End([cturn EXCEPT
                 !.out = @ \o ResultEntries(n),
                 !.delta = IF cturn.uses
                             THEN AppendMerging(@, <<Message("user", CloseToolRound(n))>>) ELSE @,
                 !.maps = {m \in @ : \A k \in DOMAIN cturn.batch :
                             m[1] = PublicId(k) => k \in Executable(cturn.batch) /\ k <= n}],
                 "stopped")
       \/ Executable(cturn.batch) # {} /\ End(cturn, "fail")
    /\ UNCHANGED <<ledger, Rest, compactions>>

-----------------------------------------------------------------------------
(* CompleteWorkflowTurn                                                    *)

\* interruptedTurnDrafts: a use stays only with its result.
InterruptedDrafts(out) ==
    LET kept == Ordered({k \in DOMAIN out : out[k].type \in UseTypes =>
                  \E i \in DOMAIN out : out[i].type = "toolresult" /\ out[i].id = out[k].id}, <)
    IN  [i \in DOMAIN kept |-> out[kept[i]]]

\* closeInterruptedProviderTranscript
CloseInterrupted(delta) ==
    LET answered == OfAll(Having(delta, {"result", "error"}))
        open     == SelectSeq(BlocksOf(delta),
                      LAMBDA b : b.type = "use" /\ b.of \cap answered = {})
    IN  AppendMerging(delta,
          <<Message("user", [i \in DOMAIN open |-> Block("error", open[i].of)])>>)

\* retainCommittedProviderMappings
CommittedMappings(maps, out) ==
    {m \in maps : \E i \in DOMAIN out : out[i].type \in UseTypes /\ out[i].id = m[1]}

\* completeTurn: an interrupt after the trigger takes the turn over.  A turn
\* without a transcript delta inserts no row.
CompleteTurn ==
    LET t       == cturn.trigger
        stop    == StopOf(t)
        out     == IF stop = 0 THEN cturn.out ELSE InterruptedDrafts(cturn.out)
        delta   == IF stop = 0 THEN cturn.delta ELSE CloseInterrupted(cturn.delta)
        maps    == IF stop = 0 THEN cturn.maps ELSE CommittedMappings(cturn.maps, out)
        acts    == IF stop = 0 THEN cturn.acts ELSE {}
        answers == IF cturn.res = {} THEN {t} ELSE cturn.res
        drained == IF stop = 0 /\ cturn.ask = "exhausted"
                     THEN {s \in DOMAIN ledger : ledger[s].type = "message"} ELSE {}
    IN  /\ cturn.pc = "finish"
        /\ ledger' = ledger \o out
        /\ rows' = IF cturn.delta = <<>> THEN rows
                   ELSE Append(rows, [represents |-> answers, messages |-> delta, maps |-> maps])
        /\ handled' = handled \cup answers \cup ({stop} \ {0}) \cup drained
        /\ awaited' = [a \in acts |-> 0]
        /\ cturn' = [NoContextTurn EXCEPT
                       !.pc = IF stop = 0 /\ cturn.ask = "fail" THEN "terminated" ELSE "idle"]
        /\ UNCHANGED <<snapshots, compactions, prepareFaults>>

-----------------------------------------------------------------------------
TurnNext ==
    \/ Resume \/ ResumeStops \/ CompactRequest \/ CallEnds
    \/ CallContinues(<<>>) \/ CallContinues(<<More>>)
    \/ \E batch \in ToolBatches : CallUsesTools(batch) \/ CallFails(batch)
    \/ CallGivesUp \/ ExecuteTools \/ ToolsStop \/ CompleteTurn

ContextNext ==
    \/ AdmitText \/ AdmitStop
    \/ \E a \in DOMAIN awaited : \E answer \in Resolutions(a) : AdmitResolution(a, answer)
    \/ StartTurn \/ PrepareAgain \/ TurnNext

ContextSpec == ContextInit /\ [][ContextNext]_contextVars

-----------------------------------------------------------------------------
ContextTypeOK ==
    /\ handled \subseteq DOMAIN ledger
    /\ \A a \in DOMAIN awaited : awaited[a] \in {0} \cup DOMAIN ledger
    /\ DOMAIN snapshots \subseteq DOMAIN ledger
    /\ Represented \subseteq handled
    /\ cturn.pc \in {"idle", "prepared", "call", "tools", "finish", "terminated"}

\* A message was still waiting when an action was answered: it was received
\* before the answer and its turn runs after it.
Overtaken ==
    \E s, r \in DOMAIN ledger :
        /\ ledger[s].type = "message" /\ ledger[r].type \in Drives \ {"message"} /\ s < r
        /\ \E u \in DOMAIN ledger : ledger[u].type \in UseTypes /\ ledger[u].id = ledger[r].id
                                      /\ ledger[u].turn < s

\* The ledger is what some request is built from: a turn ended without a row.
Unrepresented ==
    {s \in handled : ledger[s].type \in Drives} \ (Represented \cup cturn.res) # {}

\* "emitting the unpaired tool_use would make the projected request illegal
\* (400)": the roles of a request alternate, every use is answered in the
\* next message and every result answers a use of the message before it.
Legal(msgs) ==
    LET ids(i, types) == IF i \in DOMAIN msgs THEN OfAll(Having(<<msgs[i]>>, types)) ELSE {}
    IN  /\ msgs # <<>> /\ Head(msgs).role = "user"
        /\ \A i \in DOMAIN msgs :
             /\ msgs[i].content # <<>>
             /\ i > 1 => msgs[i].role # msgs[i - 1].role
             /\ ids(i, {"use"}) = ids(i + 1, {"result", "error"})
        /\ ids(1, {"result", "error"}) = {}

\* Every request the model is sent is legal (the comments on ProjectMessages and
\* closeInterruptedProviderToolRound).
RequestsLegal == cturn.pc = "call" => Legal(cturn.msgs)

\* Nothing the conversation settled is forgotten or repeated in a request: each
\* message that was processed is shown or summarised once, with every result a
\* tool has published and every Skill that is loaded.
NothingForgotten ==
    LET blocks   == BlocksOf(cturn.msgs)
        places(id) == {i \in DOMAIN blocks :
                         blocks[i].type \in {"text", "summary"} /\ id \in blocks[i].of}
        results  == OfAll(Having(cturn.msgs, {"result", "summary"}))
    IN  cturn.pc = "call" =>
          /\ \A s \in handled \cup {cturn.trigger} :
               ledger[s].type = "message" => Cardinality(places(<<s>>)) = 1
          /\ \A s \in DOMAIN ledger : ledger[s].type \in ToolResults =>
               ledger[s].id \in results \/ ledger[s].id \o <<0>> \in results
          /\ Having(Transcript, {"skill"}) \subseteq Having(cturn.msgs, {"skill"})
               \/ ~cturn.uses

\* A retried preparation shows the model what the first one recorded.
SnapshotIsShown ==
    cturn.pc = "prepared" /\ cturn.trigger \in DOMAIN snapshots =>
        cturn.msgs = snapshots[cturn.trigger]

\* However turns park, resume, fail, are interrupted, retried and compacted,
\* the model is shown a legal and complete conversation, as long as no message
\* waited behind an answer in a Thread whose transcript misses a turn.
ContextIsExact ==
    /\ (Overtaken /\ Unrepresented) \/ (RequestsLegal /\ NothingForgotten)
    /\ SnapshotIsShown
=============================================================================
