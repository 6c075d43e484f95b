------------------------------ MODULE AgentRun ------------------------------
(***************************************************************************)
(* One session driven by the native host (`sov run`): createAgent().run()  *)
(* pulls the query loop, the loop streams a model answer and hands its     *)
(* tool_use blocks to the orchestrator, and every message and every tool   *)
(* receipt goes to the session database.  The process may be killed at any *)
(* moment and any write may fail; the next run rebuilds the model history  *)
(* from the stored rows and receipts, or refuses to.                       *)
(*                                                                         *)
(* A message is [role, row, uses, res, text]: the tools it calls, in block *)
(* order, or the results it carries, in the same order, and the kinds of   *)
(* text beside them.  A provider may use the same call ids in every        *)
(* answer, so a block's id is its position; `row' is the database id of a  *)
(* message that calls tools, the key of its receipts.  A result says that  *)
(* the tool "ran", that it was "notrun", that its outcome is "unknown", or *)
(* is a "cleared" placeholder.  What a tool does, the text of messages,    *)
(* prompts, usage and cost are abstracted; context managers (no host of    *)
(* the repository passes one) and the conduct output guard are left out.   *)
(***************************************************************************)
EXTENDS Naturals, FiniteSets, Sequences, SequencesExt

CONSTANTS Tools,          \* the tools the model may call
          Concurrent,     \* those with isConcurrencySafe
          ReadOnly,       \* those with isReadOnly
          PathOf,         \* the path a tool touches, or NoPath
          NoPath,
          Batches,        \* the tool_use sequences an answer may hold
          CONCURRENT_CAP, \* tools dispatched at once
          MaxTurns,       \* maxTurns of one run
          MaxStrikes,     \* loop detections until the run is aborted
          KeepRecent,     \* results microcompact always keeps
          MaxRuns,        \* bound on the runs of the session
          MaxUpsets       \* bound on what goes wrong: failed writes, crashes,
                          \* failed or cut streams, cancellations, denials,
                          \* detections, steers, early returns

ASSUME AgentRunAssumption ==
  /\ Concurrent \subseteq Tools /\ ReadOnly \subseteq Tools
  /\ PathOf \in [Tools -> {NoPath} \cup {PathOf[t] : t \in Tools}]
  /\ Batches \subseteq Seq(Tools)
  /\ {CONCURRENT_CAP, MaxTurns, MaxStrikes} \subseteq Nat \ {0}
  /\ {KeepRecent, MaxRuns, MaxUpsets} \subseteq Nat

VARIABLES
  rows,      \* durable: the messages table, by id
  receipts,  \* durable: tool_executions, <<row, slot>> -> [state, out]
  ran,       \* how often each <<row, slot>> was called: the outside world
  pc,        \* where the run is
  turn,      \* the loop's `turn'
  history,   \* query()'s model history
  messages,  \* createAgent's list of what was yielded
  base,      \* storedPrefixLength: messages the store already held ...
  from,      \* ... and the number of rows that was
  saved,     \* savedThrough: messages the store holds
  waves,     \* sets of slots still to dispatch; the first one is in flight
  st,        \* per slot of the batch: how far its dispatch is
  outs,      \* per slot: its result
  broken,    \* storageFailure of runTools
  aborted,   \* the run's signal
  strikes,   \* loopState.strikes
  guide,     \* pendingGuidanceText is set
  steer,     \* the steer file: "none", "file" (waiting) or "taken"
  runs, upsets

store == <<rows, receipts, ran>>
batch == <<waves, st, outs, broken>>
bounds == <<runs, upsets>>
vars == <<rows, receipts, ran, pc, turn, history, messages, base, from, saved,
          waves, st, outs, broken, aborted, strikes, guide, steer, runs,
          upsets>>

-----------------------------------------------------------------------------
(* Messages.                                                               *)

User(res, text) == [role |-> "user", row |-> 0, uses |-> <<>>, res |-> res,
                    text |-> text]

Assistant(uses, row) == [role |-> "assistant", row |-> row, uses |-> uses,
                         res |-> <<>>, text |-> {}]

\* synthesizeToolResultMessage
NotRun(uses) == [i \in 1..Len(uses) |-> "notrun"]

Guidance == IF guide THEN {"guide"} ELSE {}

NoReceipt == [state |-> "none", out |-> "none"]

ReceiptOf(r, i) == IF <<r, i>> \in DOMAIN receipts THEN receipts[<<r, i>>]
                   ELSE NoReceipt

\* The result repairMissingToolResults makes up for block i of stored row r.
RepairedResult(r, i) ==
  LET rec == ReceiptOf(r, i)
  IN  IF rec.state \in {"completed", "interrupted"} /\ rec.out # "none"
        THEN rec.out
      ELSE IF rec.state = "interrupted" THEN "notrun" ELSE "unknown"

\* Mutant: a call is repaired only where the transcript ends on it.
RepairTail(rs) ==
  IF rs # <<>> /\ Last(rs).uses # <<>>
    THEN Append(rs, User([k \in 1..Len(Last(rs).uses) |-> RepairedResult(Len(rs), k)], {}))
    ELSE rs

NextIsUser(rs, i) == i < Len(rs) /\ rs[i + 1].role = "user"

\* The calls of row i have no result in the row behind it.
Missing(rs, i) == rs[i].uses # <<>> /\ ~(NextIsUser(rs, i) /\ rs[i + 1].res # <<>>)

RepairedAnswer(rs, i) == [k \in 1..Len(rs[i].uses) |-> RepairedResult(i, k)]

RepairRow(out, rs, i) ==
  IF i > 1 /\ Missing(rs, i - 1) /\ NextIsUser(rs, i - 1)
    THEN Append(out, [rs[i] EXCEPT !.res = RepairedAnswer(rs, i - 1)])
  ELSE IF Missing(rs, i) /\ ~NextIsUser(rs, i)
    THEN out \o <<rs[i], User(RepairedAnswer(rs, i), {})>>
  ELSE Append(out, rs[i])

\* repairMissingToolResults over the stored rows: every call is answered by
\* the user message that follows it, which is made up when there is none and
\* completed, results first, when it is there without them.
Repair(rs) ==
  LET upTo[i \in 0..Len(rs)] == IF i = 0 THEN <<>> ELSE RepairRow(upTo[i - 1], rs, i)
  IN  upTo[Len(rs)]

IsPlain(m) == m.uses = <<>> /\ m.res = <<>>

Folds(a, b) == a.role = b.role /\ IsPlain(a) /\ IsPlain(b)

MergeMessage(out, m) ==
  IF out # <<>> /\ Folds(Last(out), m)
    THEN [out EXCEPT ![Len(out)].text = @ \cup m.text]
    ELSE Append(out, m)

\* mergeConsecutiveSameRoleMessages: only plain neighbours are folded.
MergeSameRole(ms) ==
  LET upTo[i \in 0..Len(ms)] == IF i = 0 THEN <<>> ELSE MergeMessage(upTo[i - 1], ms[i])
  IN  upTo[Len(ms)]

\* hydrateSessionHistory(loadStoredMessages(...))
Hydrate(rs) == MergeSameRole(Repair(rs))

\* Mutant: the recovery gate looks at the calls that lack a stored result
\* only, and not at receipts that say "started".
HasNativeRecoveryTargetLax(rs) ==
  \A i \in DOMAIN rs : \A k \in DOMAIN rs[i].uses :
    \/ \E j \in (i + 1)..Len(rs) :
         rs[j].res # <<>> /\ \A l \in (i + 1)..j : rs[l].role = "user"
    \/ ReceiptOf(i, k).state # "none"

\* hasNativeRecoveryTarget: no receipt is open, and every stored call has a
\* stored result or a receipt that holds one.
HasNativeRecoveryTarget(rs) ==
  /\ \E i \in DOMAIN rs : rs[i].role = "user"
  /\ \A k \in DOMAIN receipts : receipts[k].state # "started"
  /\ \A i \in DOMAIN rs : \A k \in DOMAIN rs[i].uses :
       \/ \E j \in (i + 1)..Len(rs) :
            rs[j].res # <<>> /\ \A l \in (i + 1)..j : rs[l].role = "user"
       \/ ReceiptOf(i, k).out # "none"

-----------------------------------------------------------------------------
(* How a batch is cut into waves.                                          *)

\* Mutant: two tools conflict only when both write.
ConflictsWriters(s, t) ==
  /\ PathOf[s] # NoPath /\ PathOf[s] = PathOf[t]
  /\ s \notin ReadOnly /\ t \notin ReadOnly

\* conflictsWithAny, for one pair; one path stands for paths that overlap.
Conflicts(s, t) ==
  /\ PathOf[s] # NoPath /\ PathOf[s] = PathOf[t]
  /\ ~(s \in ReadOnly /\ t \in ReadOnly)

\* Slot i joins the sub-batch that began at slot `first' when both it and the
\* slot before it are concurrent and it conflicts with none of the sub-batch.
Joins(uses, first, i) ==
  /\ {uses[i], uses[i - 1]} \subseteq Concurrent
  /\ \A j \in first..(i - 1) : ~Conflicts(uses[i], uses[j])

\* The lot of the slot behind one with lot p: a sub-batch goes on, in waves of
\* CONCURRENT_CAP slots, or a new one begins, in a wave of its own.
NextLot(uses, p, i) ==
  IF Joins(uses, p.first, i)
    THEN [p EXCEPT !.wave = IF (i - p.first) % CONCURRENT_CAP = 0 THEN @ + 1 ELSE @]
    ELSE [first |-> i, wave |-> p.wave + 1]

\* partitionToolCalls and splitByPathOverlap: per slot, where its sub-batch
\* begins and which wave it is dispatched in; a serial item is a sub-batch of
\* one.
Lots(uses) ==
  LET lot[i \in 1..Len(uses)] == IF i = 1 THEN [first |-> 1, wave |-> 1]
                                 ELSE NextLot(uses, lot[i - 1], i)
  IN  lot

\* runTools' schedule: the set of slots of each wave, in order.
Waves(uses) ==
  LET lot == Lots(uses)
  IN  [w \in 1..lot[Len(uses)].wave |-> {i \in DOMAIN uses : lot[i].wave = w}]

-----------------------------------------------------------------------------
(* The store.  A write succeeds or fails.                                  *)

Upset == upsets < MaxUpsets /\ upsets' = upsets + 1

Fine == UNCHANGED upsets

\* saveToolExecution, for one or more blocks: a completed receipt is never
\* taken back.
Upsert(rcs, keys, state, out) ==
  [k \in DOMAIN rcs \cup keys |->
     IF \/ k \notin keys
        \/ k \in DOMAIN rcs /\ rcs[k].state = "completed" /\ state # "completed"
       THEN rcs[k]
       ELSE [state |-> state, out |-> out]]

\* The answer whose tools are being run, and the key of one of its blocks.
Intent == Last(history)

Key(i) == <<Intent.row, i>>

Save(i, state, out) == receipts' = Upsert(receipts, {Key(i)}, state, out)

-----------------------------------------------------------------------------
(* Starting a run.                                                         *)

Reset(view, kept) ==
  /\ history' = view /\ messages' = view
  /\ base' = Len(view) /\ saved' = Len(view) /\ from' = kept
  /\ turn' = 0
  /\ guide' = FALSE /\ aborted' = FALSE
  /\ waves' = <<>> /\ st' = <<>> /\ outs' = <<>> /\ broken' = FALSE

Idle == /\ pc' = "idle" /\ Reset(<<>>, 0)
        /\ steer' = IF steer = "taken" THEN "none" ELSE steer

\* The host stores the opening row, hydrates the history from the store and
\* runs the agent, unless an earlier effect has no settled outcome.
Open(rs) ==
  /\ rows' = rs
  /\ runs' = runs + 1
  /\ IF HasNativeRecoveryTarget(rs)
       THEN pc' = "top" /\ Reset(Hydrate(rs), Len(rs)) /\ UNCHANGED steer
       ELSE Idle
  /\ UNCHANGED <<receipts, ran, upsets>>

\* A new prompt on the session.
Prompt ==
  /\ pc = "idle" /\ runs < MaxRuns
  /\ Open(Append(rows, User(<<>>, {"prompt"})))
  /\ strikes' = 0

\* The next segment, or the recovery, of the turn the session is in: no new
\* prompt, but a runtime row where the transcript ends on an answer.
Continue ==
  /\ pc = "idle" /\ runs < MaxRuns /\ rows # <<>>
  /\ Open(IF Last(rows).role = "user" THEN rows
          ELSE Append(rows, User(<<>>, {"runtime"})))
  /\ UNCHANGED strikes

-----------------------------------------------------------------------------
(* The end of a run.                                                       *)

Finish == pc' = "finish"

\* persistTurn: the unsaved tail is written, or some of it until a write
\* fails.
PersistTurn ==
  /\ pc = "finish"
  /\ \E k \in saved..Len(messages) :
       /\ rows' = rows \o SubSeq(messages, saved + 1, k)
       /\ IF k = Len(messages) THEN Fine ELSE Upset
  /\ Idle
  /\ UNCHANGED <<receipts, ran, strikes, runs>>

-----------------------------------------------------------------------------
(* The head of the loop and the request.                                   *)

Unsafe == \E k \in DOMAIN receipts : receipts[k].state = "started"

\* The slice is over, the run was cancelled, or the host wants a new segment
\* (a history that needs compaction, an open receipt), or the model-call
\* budget, which the calls of sub-agents draw on too, is spent.
Leave ==
  /\ pc = "top"
  /\ Finish
  /\ IF turn = MaxTurns \/ aborted \/ (turn > 0 /\ Unsafe) THEN Fine ELSE Upset
  /\ UNCHANGED <<store, turn, history, messages, base, from, saved, batch,
                 aborted, strikes, guide, steer, runs>>

Request ==
  /\ pc = "top" /\ turn < MaxTurns /\ ~aborted /\ ~(turn > 0 /\ Unsafe)
  /\ pc' = "stream"
  /\ UNCHANGED <<store, turn, history, messages, base, from, saved, batch,
                 aborted, strikes, guide, steer, bounds>>

\* The stream throws, or ends without an assistant_message.
StreamFails ==
  /\ pc = "stream"
  /\ Finish /\ Upset
  /\ UNCHANGED <<store, turn, history, messages, base, from, saved, batch,
                 aborted, strikes, guide, steer, runs>>

\* Mutant: the saved boundary is moved only when all rows are written.
CommittedThroughAll(k, n) == IF k = n THEN n ELSE saved

\* savedThrough after the first k of n messages of the run are rows.
CommittedThrough(k, n) == k

\* The answer arrives.  createAgent stores it, with what was unsaved before
\* it, before the loop sees it; a write that fails ends the run.
Answer(uses) ==
  /\ pc = "stream"
  /\ LET said == Append(messages, Assistant(uses, Len(rows) + Len(messages)
                                                    - saved + 1))
     IN  \E k \in saved..Len(said) :
           /\ messages' = said
           /\ rows' = rows \o SubSeq(said, saved + 1, k)
           /\ saved' = CommittedThrough(k, Len(said))
           /\ IF k = Len(said)
                THEN pc' = "answered" /\ history' = Append(history, Last(said))
                     /\ Fine
                ELSE Finish /\ UNCHANGED history /\ Upset
  /\ UNCHANGED <<receipts, ran, turn, base, from, batch, aborted, strikes,
                 guide, steer, runs>>

-----------------------------------------------------------------------------
(* What the loop does with an answer.                                      *)

\* A message the loop pushes and yields; createAgent does not store it yet.
Say(m) == /\ history' = Append(history, m)
          /\ messages' = Append(messages, m)

\* A run that ends on an answer answers its calls first.
RefuseBatch(text) ==
  /\ Finish
  /\ IF Intent.uses # <<>> THEN Say(User(NotRun(Intent.uses), text))
     ELSE UNCHANGED <<history, messages>>

\* The loop detector looks at the answer: no detection, guidance for the next
\* user message, or the strike that aborts the run.
Detect ==
  /\ pc = "answered"
  /\ \/ pc' = "checked" /\ Fine /\ UNCHANGED <<strikes, guide, history, messages>>
     \/ /\ strikes + 1 < MaxStrikes /\ Upset
        /\ pc' = "checked"
        /\ strikes' = strikes + 1
        /\ guide' = (Intent.uses # <<>>)
        /\ UNCHANGED <<history, messages>>
     \/ /\ strikes + 1 >= MaxStrikes /\ Upset
        /\ strikes' = strikes + 1
        /\ RefuseBatch({})
        /\ UNCHANGED guide
  /\ UNCHANGED <<store, turn, base, from, saved, batch, aborted, steer, runs>>

\* The answer hit max_tokens, or calls tools where none can run.
Truncated ==
  /\ pc = "checked"
  /\ RefuseBatch(Guidance)
  /\ guide' = FALSE /\ Upset
  /\ UNCHANGED <<store, turn, base, from, saved, batch, aborted, strikes, steer,
                 runs>>

\* Another model call is allowed, so a waiting steer is taken.
Steered == steer = "file" /\ turn + 1 < MaxTurns

\* An answer without calls ends the run, or carries on with a steer.
FinalAnswer ==
  /\ pc = "checked" /\ Intent.uses = <<>>
  /\ IF Steered
       THEN /\ Say(User(<<>>, {"steer"}))
            /\ steer' = "taken"
            /\ pc' = "top" /\ turn' = turn + 1
       ELSE Finish /\ UNCHANGED <<history, messages, steer, turn>>
  /\ UNCHANGED <<store, base, from, saved, batch, aborted, strikes, guide, bounds>>

\* persistBeforeTools: an "interrupted" receipt for every call, before any of
\* them may start; a write that fails refuses the batch.
PersistBeforeTools ==
  /\ pc = "checked" /\ Intent.uses # <<>>
  /\ \E n \in 0..Len(Intent.uses) :
       /\ receipts' = Upsert(receipts, {Key(i) : i \in 1..n}, "interrupted", "none")
       /\ IF n = Len(Intent.uses)
            THEN /\ pc' = "tools"
                 /\ waves' = Waves(Intent.uses)
                 /\ st' = [i \in 1..n |-> "queued"]
                 /\ outs' = NotRun(Intent.uses)
                 /\ Fine /\ UNCHANGED <<history, messages, guide>>
            ELSE /\ RefuseBatch(Guidance) /\ guide' = FALSE
                 /\ Upset /\ UNCHANGED <<waves, st, outs>>
  /\ UNCHANGED <<rows, ran, turn, base, from, saved, broken, aborted, strikes,
                 steer, runs>>

-----------------------------------------------------------------------------
(* Tool dispatch.  The slots of a wave run side by side.                   *)

InFlight == IF pc = "tools" /\ waves # <<>> THEN Head(waves) ELSE {}

Step(i, now) == st' = [st EXCEPT ![i] = now]

Dispatching == UNCHANGED <<rows, pc, turn, history, messages, base, from, saved,
                           waves, aborted, strikes, guide, steer, runs>>

\* A slot whose turn comes after the store has failed is not dispatched.
SkipTool(i) ==
  /\ i \in InFlight /\ st[i] = "queued" /\ broken
  /\ Step(i, "done")
  /\ UNCHANGED <<receipts, ran, outs, broken, upsets>> /\ Dispatching

\* The tool is known, its input valid, and permission is being asked.
AdmitTool(i) ==
  /\ i \in InFlight /\ st[i] = "queued" /\ ~broken /\ ~aborted
  /\ Step(i, "asked")
  /\ UNCHANGED <<receipts, ran, outs, broken, upsets>> /\ Dispatching

\* Unknown tool, cancelled run, invalid input, denied by the permission gate,
\* a hook, a skill's floor or the tool's own validation.
RefuseTool(i) ==
  /\ i \in InFlight /\ st[i] \in {"queued", "asked"}
  /\ st[i] = "queued" => ~broken
  /\ Step(i, "refused")
  /\ IF aborted THEN Fine ELSE Upset
  /\ UNCHANGED <<receipts, ran, outs, broken>> /\ Dispatching

\* Mutant: a "started" write that fails is noted, and the tool runs anyway.
StartToolAnyway(i) ==
  /\ i \in InFlight /\ st[i] = "asked" /\ ~aborted
  /\ Step(i, "running")
  /\ ran' = [k \in DOMAIN ran \cup {Key(i)} |->
               IF k # Key(i) THEN ran[k]
               ELSE IF k \in DOMAIN ran THEN ran[k] + 1 ELSE 1]
  /\ \/ Save(i, "started", "none") /\ Fine /\ UNCHANGED broken
     \/ broken' = TRUE /\ Upset /\ UNCHANGED receipts
  /\ UNCHANGED outs /\ Dispatching

\* The last check of the signal, the "started" receipt, then tool.call(); a
\* receipt that cannot be written keeps the tool from running.
StartTool(i) ==
  /\ i \in InFlight /\ st[i] = "asked" /\ ~aborted
  /\ \/ /\ Save(i, "started", "none") /\ Fine
        /\ Step(i, "running")
        /\ ran' = [k \in DOMAIN ran \cup {Key(i)} |->
                     IF k # Key(i) THEN ran[k]
                     ELSE IF k \in DOMAIN ran THEN ran[k] + 1 ELSE 1]
        /\ UNCHANGED broken
     \/ /\ Upset /\ broken' = TRUE
        /\ Step(i, "refused")
        /\ UNCHANGED <<receipts, ran>>
  /\ UNCHANGED outs /\ Dispatching

\* The tool returns or throws: its result is journalled before the
\* PostToolUse hook runs.
ReturnTool(i) ==
  /\ i \in InFlight /\ st[i] = "running"
  /\ Step(i, "returned")
  /\ outs' = [outs EXCEPT ![i] = "ran"]
  /\ \/ Save(i, "completed", "ran") /\ Fine /\ UNCHANGED broken
     \/ broken' = TRUE /\ Upset /\ UNCHANGED receipts
  /\ UNCHANGED ran /\ Dispatching

\* dispatch(): the outcome, of a refusal too, is made durable.  A refusal is
\* "completed", or "interrupted" once the store has failed.
CloseTool(i) ==
  /\ i \in InFlight /\ st[i] \in {"refused", "returned"}
  /\ Step(i, "done")
  /\ LET state == IF broken /\ st[i] = "refused" THEN "interrupted" ELSE "completed"
     IN  \/ Save(i, state, outs[i]) /\ Fine /\ UNCHANGED broken
         \/ broken' = TRUE /\ Upset /\ UNCHANGED receipts
  /\ UNCHANGED <<ran, outs>> /\ Dispatching

\* Promise.all of a wave: the next one starts when every slot is done.
NextWave ==
  /\ InFlight # {} /\ \A i \in InFlight : st[i] = "done"
  /\ waves' = Tail(waves)
  /\ UNCHANGED <<store, pc, turn, history, messages, base, from, saved, st, outs,
                 broken, aborted, strikes, guide, steer, bounds>>

-----------------------------------------------------------------------------
(* After the batch.                                                        *)

\* The results older than the last user message with text.
CollectCompactableRefs(ms) ==
  LET WithText == {i \in DOMAIN ms : ms[i].role = "user" /\ ms[i].text # {}}
      Old == {i \in DOMAIN ms : WithText = {} \/ \E j \in WithText : i < j}
  IN  UNION {{<<i, k>> : k \in {k \in DOMAIN ms[i].res : ms[i].res[k] = "ran"}} : i \in Old}

\* toClear: all of them but for the KeepRecent newest.
ToClear(ms) ==
  LET refs == CollectCompactableRefs(ms)
      Later(r) == {q \in refs : q[1] > r[1] \/ (q[1] = r[1] /\ q[2] > r[2])}
  IN  {r \in refs : Cardinality(Later(r)) >= KeepRecent}

ClearResults(res, i, refs) ==
  [k \in DOMAIN res |-> IF <<i, k>> \in refs THEN "cleared" ELSE res[k]]

\* microcompact: the results to be cleared become placeholders.
Microcompact(ms) ==
  LET refs == ToClear(ms)
  IN  [i \in DOMAIN ms |-> [ms[i] EXCEPT !.res = ClearResults(ms[i].res, i, refs)]]

\* savedThrough once the batch's message, not yet pushed, is a row.
SavedAfterTools == Len(messages) + 1

\* The batch's single user message takes in pending guidance and a waiting
\* steer, is stored, pushed and yielded.  A store that failed, here or during
\* the batch, ends the run; otherwise the loop goes on, or pauses for a
\* check-in.
AfterTools ==
  /\ pc = "tools" /\ waves = <<>>
  /\ guide' = FALSE
  /\ steer' = IF Steered THEN "taken" ELSE steer
  /\ LET out == User(outs, Guidance \cup (IF Steered THEN {"steer"} ELSE {}))
     IN  \/ /\ rows' = Append(rows, out) /\ saved' = SavedAfterTools
            /\ messages' = Append(messages, out)
            /\ \/ /\ broken /\ Finish /\ Fine
                  /\ history' = Append(history, out)
                  /\ UNCHANGED <<turn, strikes>>
               \/ /\ ~broken
                  /\ strikes' \in {strikes, 0}
                  /\ history' \in {Append(history, out),
                                   Microcompact(Append(history, out))}
                  /\ \/ pc' = "top" /\ turn' = turn + 1 /\ Fine
                     \/ Finish /\ Upset /\ UNCHANGED turn
         \/ /\ Say(out) /\ Finish /\ Upset
            /\ UNCHANGED <<rows, saved, turn, strikes>>
  /\ waves' = <<>> /\ st' = <<>> /\ outs' = <<>> /\ broken' = FALSE
  /\ UNCHANGED <<receipts, ran, base, from, aborted, runs>>

-----------------------------------------------------------------------------
(* The surroundings.                                                       *)

\* The user cancels the run; the signal is looked at where the loop turns
\* and around a tool's start.
Cancel ==
  /\ pc \in {"top", "tools"} /\ ~aborted
  /\ aborted' = TRUE /\ Upset
  /\ UNCHANGED <<store, pc, turn, history, messages, base, from, saved, batch,
                 strikes, guide, steer, runs>>

\* The operator leaves a steer; the loop looks for one after the answer.
LeaveSteer ==
  /\ pc = "stream" /\ steer = "none"
  /\ steer' = "file" /\ Upset
  /\ UNCHANGED <<store, pc, turn, history, messages, base, from, saved, batch,
                 aborted, strikes, guide, runs>>

\* The process dies; a tool that was running may have done its work.
Crash ==
  /\ pc # "idle"
  /\ Idle /\ strikes' = 0 /\ Upset
  /\ UNCHANGED <<store, runs>>

Init ==
  /\ rows = <<>> /\ receipts = <<>> /\ ran = <<>>
  /\ pc = "idle" /\ turn = 0
  /\ history = <<>> /\ messages = <<>> /\ base = 0 /\ from = 0 /\ saved = 0
  /\ waves = <<>> /\ st = <<>> /\ outs = <<>> /\ broken = FALSE
  /\ aborted = FALSE /\ strikes = 0 /\ guide = FALSE /\ steer = "none"
  /\ runs = 0 /\ upsets = 0

ToolStep == \E i \in InFlight :
  SkipTool(i) \/ AdmitTool(i) \/ RefuseTool(i) \/ StartTool(i) \/ ReturnTool(i)
    \/ CloseTool(i)

LoopStep ==
  \/ Leave \/ Request \/ StreamFails \/ (\E b \in Batches : Answer(b))
  \/ Detect \/ Truncated \/ FinalAnswer \/ PersistBeforeTools
  \/ NextWave \/ AfterTools \/ PersistTurn

\* The bound on runs is reached: the only state in which nothing need happen.
Rest == pc = "idle" /\ runs = MaxRuns /\ UNCHANGED vars

Next == \/ Prompt \/ Continue \/ LoopStep \/ ToolStep
        \/ Cancel \/ LeaveSteer \/ Crash \/ Rest

Spec == Init /\ [][Next]_vars

-----------------------------------------------------------------------------
(* Properties.                                                             *)

Message == [role : {"user", "assistant"}, row : Nat, uses : Batches \cup {<<>>},
            res : Seq({"ran", "notrun", "unknown", "cleared"}),
            text : SUBSET {"prompt", "runtime", "guide", "steer"}]

TypeOK ==
  /\ \A s \in {rows, history, messages} : \A i \in DOMAIN s : s[i] \in Message
  /\ \A k \in DOMAIN receipts :
       receipts[k] \in [state : {"started", "completed", "interrupted"},
                        out : {"none", "ran", "notrun"}]
  /\ \A k \in DOMAIN ran : ran[k] \in Nat
  /\ pc \in {"idle", "top", "stream", "answered", "checked", "tools", "finish"}
  /\ turn \in 0..MaxTurns /\ strikes \in Nat
  /\ base <= saved /\ saved <= Len(messages) /\ from <= Len(rows)
  /\ \A i \in DOMAIN st : st[i] \in {"queued", "asked", "refused", "running",
                                     "returned", "done"}
  /\ {broken, aborted, guide} \subseteq BOOLEAN
  /\ steer \in {"none", "file", "taken"}

\* In every history sent to the provider each tool call is answered, block
\* for block, by the user message right behind it, and no result is an orphan:
\* over cancellations, loop-guard aborts, failed writes, crashes and repairs.
\* Roles alternate, as providers require, but for one case: a prompt behind the
\* results of a batch whose turn ended there is a user message after a user
\* message, since hydration folds only plain neighbours.
RequestWellFormed ==
  pc = "stream" => \A i \in DOMAIN history :
    /\ history[i].uses # <<>> =>
         i < Len(history) /\ Len(history[i + 1].res) = Len(history[i].uses)
    /\ history[i].res # <<>> => i > 1 /\ history[i - 1].uses # <<>>
    /\ i < Len(history) /\ history[i].role = history[i + 1].role =>
         history[i].res # <<>> /\ "prompt" \in history[i + 1].text

\* The model is never told a falsehood about an effect: a result it is sent
\* says "ran" (or is the placeholder of one that did) exactly for the calls
\* that ran, and no call is left with an unknown outcome, in this process or
\* in one that died.
RequestTruthful ==
  pc = "stream" => \A i \in DOMAIN history : \A k \in DOMAIN history[i].uses :
    history[i + 1].res[k] \in
      (IF <<history[i].row, k>> \in DOMAIN ran THEN {"ran", "cleared"} ELSE {"notrun"})

\* A call runs at most once, and from the moment it may have had an effect its
\* durable receipt says so: a receipt that says "interrupted", or holds a
\* "notrun" result, is of a call that never ran.
ReceiptsTellTheTruth ==
  /\ \A k \in DOMAIN ran :
       ran[k] = 1 /\ k \in DOMAIN receipts
         /\ receipts[k].state # "interrupted" /\ receipts[k].out # "notrun"
  /\ \A k \in DOMAIN receipts : receipts[k].out = "ran" => k \in DOMAIN ran

\* Two tools that are running at the same time and touch the same path only
\* read it.
NoPathRace ==
  \A i, j \in {i \in InFlight : st[i] = "running"} :
    LET s == Intent.uses[i]
        t == Intent.uses[j]
    IN  i # j /\ PathOf[s] = PathOf[t] /\ PathOf[s] # NoPath => {s, t} \subseteq ReadOnly

\* The rows a run added are exactly the messages it counts as saved, in
\* order: no message is stored twice and none is skipped, whichever of the
\* writes before, after and at the end of the run failed half way.
JournalExact ==
  pc # "idle" =>
    SubSeq(rows, from + 1, Len(rows)) = SubSeq(messages, base + 1, saved)

\* A steer taken from its file is in the conversation the run will store.
SteerKept ==
  pc # "idle" /\ steer = "taken" =>
    \E i \in DOMAIN messages : "steer" \in messages[i].text

\* Nothing a run has taken in is lost or stored twice: types, the journal and
\* the steer together.
JournalSafe == TypeOK /\ JournalExact /\ SteerKept

=============================================================================
