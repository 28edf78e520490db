---------------------------- MODULE CampaignProofs ----------------------------
(***************************************************************************)
(* Theorems about the scoring run of the H2 evaluation and the             *)
(* observations it is made of, for every limit and every schedule.         *)
(***************************************************************************)
EXTENDS Campaign, WellFoundedInduction, FiniteSetTheorems, TLAPS

\* The phases in which the launcher of an agent may be there.
Acting == {"handshake", "prompting", "grace", "watching", "closing", "terminating"}
Phases == {"idle", "starting", "reading", "removing", "ended", "thrown"} \cup Acting

Cells == {"none", "B", "C"}
Receipts ==
    [cell : Cells, drift : BOOLEAN, success : BOOLEAN,
     terminal : {"INFRASTRUCTURE_FAILURE", "RESOURCE_EXHAUSTED", "COMPLETED", "CANCELLED",
                 "REFUSAL"}]
FactsOfACell == [earned : BOOLEAN, exceeded : BOOLEAN, models : {"frozen", "other", "none"}]

AgentStates ==
    [process : {"none", "running", "orphaned", "exited"}, workspace : {"solved", "broken"},
     turn : {"none", "running", "failed"} \cup StopReasons, overtime : BOOLEAN]
LogStates == [state : {"missing", "plain", "compressed", "torn"}, completions : Nat,
              models : SUBSET {"frozen", "other"}]
WatchStates == [state : {"off", "seeking", "polling", "stopped"}, seen : Nat]
Knowledge ==
    [session : BOOLEAN, stop : BOOLEAN, stopReason : {"none"} \cup StopReasons,
     budget : {"none", "PROVIDER_COMPLETIONS", "WALL_TIME"},
     infrastructure : BOOLEAN, telemetry : BOOLEAN, drift : BOOLEAN]

ObsTypeOK ==
    /\ phase \in Phases
    /\ cell \in Cells
    /\ receipt \in Seq(Receipts)
    /\ agent \in AgentStates
    /\ log \in LogStates
    /\ watch \in WatchStates
    /\ late \in BOOLEAN
    /\ local \in Knowledge

\* What is on disk is of the cell under observation or of an agent that lives on.
DiskIsOwn == \A p \in disk : p[1] = cell \/ (p[1] \in survivors /\ p[2] = "workspace")

\* A launcher is there between the start of its observation and its termination,
\* and meanwhile the run's directory is that of its cell.
AgentIsAlone ==
    /\ agent.process = "running" => phase \in Acting
    /\ agent.process = "orphaned" => phase # "idle"
    /\ phase \notin {"idle", "thrown"} => DiskIsOwn

\* What runObservation knows of the turn and of the log is so.
KnowledgeIsTrue ==
    /\ local.stopReason # "none" => agent.turn = local.stopReason
    /\ local.budget = "PROVIDER_COMPLETIONS" => log.completions > Limit
    /\ local.budget = "WALL_TIME" => late
    /\ watch.seen <= log.completions
    /\ agent.overtime => late

\* Only an observation that has a session is told a reason to stop or watched;
\* an answer out of time is noticed before the session is closed.
KnowledgeComesInTime ==
    /\ phase \in {"idle", "starting", "handshake", "prompting", "grace"} =>
           local.stopReason = "none"
    /\ phase \in {"idle", "starting", "handshake"} =>
           watch.state = "off" /\ local.budget = "none"
    /\ /\ phase \in {"closing", "terminating", "reading"}
       /\ local.stopReason # "none" /\ agent.overtime
       => local.budget # "none"
    /\ phase \in {"prompting", "grace", "watching", "closing"} => local.session
    /\ watch.state # "off" \/ local.stopReason # "none" \/ local.budget # "none" => local.session

\* A receipt and what its observation has been.
Told(r, fact) ==
    /\ r.success => fact.earned
    /\ r.terminal = "RESOURCE_EXHAUSTED" => fact.exceeded
    /\ r.drift => fact.models = "other"
    /\ ResolvedReceipt(r) => fact.models = "frozen"

ReceiptIsTold ==
    phase \in {"removing", "ended"} =>
        /\ Len(receipt) = 1 /\ receipt[1].cell = cell
        /\ Told(receipt[1], Facts)

ObsInv == ObsTypeOK /\ AgentIsAlone /\ KnowledgeIsTrue /\ KnowledgeComesInTime /\ ReceiptIsTold

\* The cells are observed in the order of the schedule, one receipt each.
ScheduleIsKept ==
    /\ stage \in {"running", "flushing", "reporting", "ended", "failed", "crashed"}
    /\ retained \in Seq(Receipts) /\ truth \in Seq(FactsOfACell)
    /\ Len(truth) = Len(retained)
    /\ phase \notin {"idle", "thrown"} => stage = "running"
    /\ stage = "running" => /\ stopReason = "none" /\ report = <<>>
                            /\ phase # "idle" => /\ Len(retained) < Len(Schedule)
                                                 /\ cell = Schedule[Len(retained) + 1]
    /\ stage = "failed" => Len(retained) < Len(Schedule)
    /\ \A i \in DOMAIN retained :
           retained[i].cell = Schedule[i] /\ Told(retained[i], truth[i])

\* A run that was stopped misses a cell or has one that is not resolved.
StopIsSeen ==
    /\ stopReason # "none" =>
           \/ Len(retained) < Len(Schedule)
           \/ \E i \in DOMAIN retained : ~ResolvedReceipt(retained[i])
    /\ stopReason = "MODEL_IDENTITY_DRIFT" => \E i \in DOMAIN truth : truth[i].models = "other"

\* A report is made of all receipts, once there are no more.
ReportIsOfTheReceipts ==
    /\ report # <<>> => stage \in {"ended", "failed"} /\ report[1] = ReportOf(retained)
    /\ published => report # <<>> /\ Publishable(report[1])

RunInv == ScheduleIsKept /\ StopIsSeen /\ ReportIsOfTheReceipts

-----------------------------------------------------------------------------
\* What has been of an observation is settled when its agent is gone; only the
\* time passes.
LEMMA ReceiptStaysTold ==
    ASSUME ObsTypeOK, ReceiptIsTold,
           phase' \in {"removing", "ended"} =>
               /\ phase \in {"removing", "ended"}
               /\ UNCHANGED <<cell, agent, log, receipt>>,
           late => late'
    PROVE  ReceiptIsTold'
<1> SUFFICES ASSUME phase' \in {"removing", "ended"}
             PROVE  Len(receipt') = 1 /\ receipt'[1].cell = cell' /\ Told(receipt[1], Facts)'
  BY DEF ReceiptIsTold
<1>1. /\ Facts'.earned = Facts.earned /\ Facts'.models = Facts.models
      /\ Facts.exceeded => Facts'.exceeded
  BY DEF Facts, ObsTypeOK
<1>2. Told(receipt[1], Facts)
  BY DEF ReceiptIsTold
<1> QED BY <1>1, <1>2 DEF Told, ReceiptIsTold, ResolvedReceipt

-----------------------------------------------------------------------------
\* Every step of an observation preserves its invariant.
LEMMA StartStep == ASSUME ObsInv, Start PROVE ObsInv'
<1> USE DEF ObsInv
<1>1. ObsTypeOK'
  <2> USE DEF Start, Fails, Goes, ObsTypeOK
  <2>1. phase' \in Phases /\ cell' \in Cells /\ receipt' \in Seq(Receipts)
    BY DEF Phases, Acting
  <2>2. agent' \in AgentStates
    BY DEF AgentStates, StopReasons
  <2>3. log' \in LogStates /\ watch' \in WatchStates
    BY BoundsAssumption DEF LogStates, WatchStates
  <2>4. late' \in BOOLEAN
    OBVIOUS
  <2>5. local' \in Knowledge
    BY DEF Knowledge, StopReasons
  <2> QED BY <2>1, <2>2, <2>3, <2>4, <2>5
<1>2. AgentIsAlone'
  BY DEF Start, Fails, Goes, ObsTypeOK, AgentStates, AgentIsAlone, DiskIsOwn, Acting
<1>3. KnowledgeIsTrue'
  BY BoundsAssumption DEF Start, Fails, Goes, ObsTypeOK, KnowledgeIsTrue,
                          KnowledgeComesInTime, AgentStates, LogStates, WatchStates,
                          Knowledge, StopReasons
<1>4. KnowledgeComesInTime'
  BY DEF Start, Fails, Goes, ObsTypeOK, KnowledgeIsTrue, KnowledgeComesInTime,
         AgentStates, LogStates, WatchStates, Knowledge, StopReasons
<1>5. ReceiptIsTold'
  BY ReceiptStaysTold DEF Start, Fails, Goes, AgentIsAlone, Acting
<1> QED BY <1>1, <1>2, <1>3, <1>4, <1>5

LEMMA HandshakeStep == ASSUME ObsInv, Handshake PROVE ObsInv'
<1> USE DEF ObsInv
<1>1. ObsTypeOK'
  <2> USE DEF Handshake, Fails, Goes, ObsTypeOK
  <2>1. phase' \in Phases /\ cell' \in Cells /\ receipt' \in Seq(Receipts)
    BY DEF Phases, Acting
  <2>2. agent' \in AgentStates
    BY DEF AgentStates, StopReasons
  <2>3. log' \in LogStates /\ watch' \in WatchStates
    BY BoundsAssumption DEF LogStates, WatchStates
  <2>4. late' \in BOOLEAN
    OBVIOUS
  <2>5. local' \in Knowledge
    BY DEF Knowledge, StopReasons
  <2> QED BY <2>1, <2>2, <2>3, <2>4, <2>5
<1>2. AgentIsAlone'
  BY DEF Handshake, Fails, Goes, ObsTypeOK, AgentStates, AgentIsAlone, DiskIsOwn, Acting
<1>3. KnowledgeIsTrue'
  BY BoundsAssumption DEF Handshake, Fails, Goes, ObsTypeOK, KnowledgeIsTrue,
                          KnowledgeComesInTime, AgentStates, LogStates, WatchStates,
                          Knowledge, StopReasons
<1>4. KnowledgeComesInTime'
  <2>1. /\ phase = "handshake" /\ local.stopReason = "none" /\ local.budget = "none"
        /\ watch.state = "off"
        /\ phase' \in {"prompting", "terminating"}
    BY DEF Handshake, Goes, KnowledgeComesInTime
  <2>2. /\ local'.stopReason = "none" /\ local'.budget = "none"
    BY <2>1 DEF Handshake, ObsTypeOK, Knowledge
  <2>3. CASE phase' = "prompting"
    <3>1. local'.session
      BY <2>3 DEF Handshake, Goes, ObsTypeOK, Knowledge
    <3> QED BY <2>2, <2>3, <3>1 DEF KnowledgeComesInTime
  <2>4. CASE phase' = "terminating"
    <3>1. PICK session \in BOOLEAN :
              /\ local' = [local EXCEPT !.infrastructure = TRUE, !.session = session]
              /\ UNCHANGED watch
      BY <2>4 DEF Handshake, Goes
    <3> QED BY <2>1, <2>2, <2>4, <3>1 DEF KnowledgeComesInTime, ObsTypeOK, Knowledge
  <2> QED BY <2>1, <2>3, <2>4
<1>5. ReceiptIsTold'
  BY ReceiptStaysTold DEF Handshake, Fails, Goes, AgentIsAlone, Acting
<1> QED BY <1>1, <1>2, <1>3, <1>4, <1>5

LEMMA CompleteStep == ASSUME ObsInv, Complete PROVE ObsInv'
<1> USE DEF ObsInv
<1>1. ObsTypeOK'
  <2> USE DEF Complete, Working, ObsTypeOK
  <2>1. phase' \in Phases /\ cell' \in Cells /\ receipt' \in Seq(Receipts)
    BY DEF Phases, Acting
  <2>2. agent' \in AgentStates
    BY DEF AgentStates, StopReasons
  <2>3. log' \in LogStates /\ watch' \in WatchStates
    BY BoundsAssumption DEF LogStates, WatchStates
  <2>4. late' \in BOOLEAN
    OBVIOUS
  <2>5. local' \in Knowledge
    BY DEF Knowledge, StopReasons
  <2> QED BY <2>1, <2>2, <2>3, <2>4, <2>5
<1>2. AgentIsAlone'
  BY DEF Complete, Working, ObsTypeOK, AgentStates, AgentIsAlone, DiskIsOwn, Acting
<1>3. KnowledgeIsTrue'
  BY BoundsAssumption DEF Complete, Working, ObsTypeOK, KnowledgeIsTrue,
                          KnowledgeComesInTime, AgentStates, LogStates, WatchStates,
                          Knowledge, StopReasons
<1>4. KnowledgeComesInTime'
  BY DEF Complete, Working, ObsTypeOK, KnowledgeIsTrue, KnowledgeComesInTime,
         AgentStates, LogStates, WatchStates, Knowledge, StopReasons
<1>5. ReceiptIsTold'
  BY ReceiptStaysTold DEF Complete, Working, AgentIsAlone, Acting
<1> QED BY <1>1, <1>2, <1>3, <1>4, <1>5

LEMMA BeginLogStep == ASSUME ObsInv, BeginLog PROVE ObsInv'
<1> USE DEF ObsInv
<1>1. ObsTypeOK'
  <2> USE DEF BeginLog, Working, ObsTypeOK
  <2>1. phase' \in Phases /\ cell' \in Cells /\ receipt' \in Seq(Receipts)
    BY DEF Phases, Acting
  <2>2. agent' \in AgentStates
    BY DEF AgentStates, StopReasons
  <2>3. log' \in LogStates /\ watch' \in WatchStates
    BY BoundsAssumption DEF LogStates, WatchStates
  <2>4. late' \in BOOLEAN
    OBVIOUS
  <2>5. local' \in Knowledge
    BY DEF Knowledge, StopReasons
  <2> QED BY <2>1, <2>2, <2>3, <2>4, <2>5
<1>2. AgentIsAlone'
  BY DEF BeginLog, Working, ObsTypeOK, AgentStates, AgentIsAlone, DiskIsOwn, Acting
<1>3. KnowledgeIsTrue'
  BY BoundsAssumption DEF BeginLog, Working, ObsTypeOK, KnowledgeIsTrue,
                          KnowledgeComesInTime, AgentStates, LogStates, WatchStates,
                          Knowledge, StopReasons
<1>4. KnowledgeComesInTime'
  BY DEF BeginLog, Working, ObsTypeOK, KnowledgeIsTrue, KnowledgeComesInTime,
         AgentStates, LogStates, WatchStates, Knowledge, StopReasons
<1>5. ReceiptIsTold'
  BY ReceiptStaysTold DEF BeginLog, Working, AgentIsAlone, Acting
<1> QED BY <1>1, <1>2, <1>3, <1>4, <1>5

LEMMA WorkStep == ASSUME ObsInv, Work PROVE ObsInv'
<1> USE DEF ObsInv
<1>1. ObsTypeOK'
  <2> USE DEF Work, Working, ObsTypeOK
  <2>1. phase' \in Phases /\ cell' \in Cells /\ receipt' \in Seq(Receipts)
    BY DEF Phases, Acting
  <2>2. agent' \in AgentStates
    BY DEF AgentStates, StopReasons
  <2>3. log' \in LogStates /\ watch' \in WatchStates
    BY BoundsAssumption DEF LogStates, WatchStates
  <2>4. late' \in BOOLEAN
    OBVIOUS
  <2>5. local' \in Knowledge
    BY DEF Knowledge, StopReasons
  <2> QED BY <2>1, <2>2, <2>3, <2>4, <2>5
<1>2. AgentIsAlone'
  BY DEF Work, Working, ObsTypeOK, AgentStates, AgentIsAlone, DiskIsOwn, Acting
<1>3. KnowledgeIsTrue'
  BY BoundsAssumption DEF Work, Working, ObsTypeOK, KnowledgeIsTrue,
                          KnowledgeComesInTime, AgentStates, LogStates, WatchStates,
                          Knowledge, StopReasons
<1>4. KnowledgeComesInTime'
  BY DEF Work, Working, ObsTypeOK, KnowledgeIsTrue, KnowledgeComesInTime, AgentStates,
         LogStates, WatchStates, Knowledge, StopReasons
<1>5. ReceiptIsTold'
  BY ReceiptStaysTold DEF Work, Working, AgentIsAlone, Acting
<1> QED BY <1>1, <1>2, <1>3, <1>4, <1>5

LEMMA AnswerStep == ASSUME ObsInv, Answer PROVE ObsInv'
<1> USE DEF ObsInv
<1>1. ObsTypeOK'
  <2> USE DEF Answer, Working, Fails, Goes, ObsTypeOK
  <2>1. phase' \in Phases /\ cell' \in Cells /\ receipt' \in Seq(Receipts)
    BY DEF Phases, Acting
  <2>2. agent' \in AgentStates
    BY DEF AgentStates, StopReasons
  <2>3. log' \in LogStates /\ watch' \in WatchStates
    BY BoundsAssumption DEF LogStates, WatchStates
  <2>4. late' \in BOOLEAN
    OBVIOUS
  <2>5. local' \in Knowledge
    BY DEF Knowledge, StopReasons
  <2> QED BY <2>1, <2>2, <2>3, <2>4, <2>5
<1>2. AgentIsAlone'
  BY DEF Answer, Working, Fails, Goes, ObsTypeOK, AgentStates, AgentIsAlone, DiskIsOwn, Acting
<1>3. KnowledgeIsTrue'
  <2>1. /\ agent.turn = "running" /\ local.stopReason = "none"
        /\ UNCHANGED <<log, watch, late>>
    BY DEF Answer, Working, ObsTypeOK, Knowledge, KnowledgeIsTrue, StopReasons
  <2>2. CASE \E reason \in StopReasons :
                 /\ agent' = [agent EXCEPT !.turn = reason, !.overtime = late]
                 /\ \/ local' = [local EXCEPT !.stopReason = reason, !.stop = TRUE]
                    \/ local' = local
    <3>1. PICK reason \in StopReasons :
              /\ agent' = [agent EXCEPT !.turn = reason, !.overtime = late]
              /\ \/ local' = [local EXCEPT !.stopReason = reason, !.stop = TRUE]
                 \/ local' = local
      BY <2>2
    <3>2. agent'.turn = reason /\ agent'.overtime = late
      BY <3>1 DEF ObsTypeOK, AgentStates
    <3>3. /\ local'.budget = local.budget
          /\ local'.stopReason = "none" \/ local'.stopReason = reason
      BY <2>1, <3>1 DEF ObsTypeOK, Knowledge
    <3> QED BY <2>1, <3>2, <3>3 DEF KnowledgeIsTrue
  <2>3. CASE /\ agent' = [agent EXCEPT !.turn = "failed"]
             /\ local' = local \/ local' = [local EXCEPT !.infrastructure = TRUE]
    <3>1. /\ agent'.overtime = agent.overtime
          /\ local'.budget = local.budget /\ local'.stopReason = "none"
      BY <2>1, <2>3 DEF ObsTypeOK, AgentStates, Knowledge
    <3> QED BY <2>1, <3>1 DEF KnowledgeIsTrue
  <2> QED BY <2>2, <2>3 DEF Answer, Fails
<1>4. KnowledgeComesInTime'
  BY DEF Answer, Working, Fails, Goes, ObsTypeOK, KnowledgeIsTrue, KnowledgeComesInTime,
         AgentStates, LogStates, WatchStates, Knowledge, StopReasons
<1>5. ReceiptIsTold'
  BY ReceiptStaysTold DEF Answer, Working, Fails, Goes, AgentIsAlone, Acting
<1> QED BY <1>1, <1>2, <1>3, <1>4, <1>5

LEMMA ExitStep == ASSUME ObsInv, Exit PROVE ObsInv'
<1> USE DEF ObsInv
<1>1. ObsTypeOK'
  <2> USE DEF Exit, Ends, Torn, Working, Rejected, Fails, Goes, ObsTypeOK
  <2>1. phase' \in Phases /\ cell' \in Cells /\ receipt' \in Seq(Receipts)
    BY DEF Phases, Acting
  <2>2. agent' \in AgentStates
    BY DEF AgentStates, StopReasons
  <2>3. log' \in LogStates /\ watch' \in WatchStates
    BY BoundsAssumption DEF LogStates, WatchStates
  <2>4. late' \in BOOLEAN
    OBVIOUS
  <2>5. local' \in Knowledge
    BY DEF Knowledge, StopReasons
  <2> QED BY <2>1, <2>2, <2>3, <2>4, <2>5
<1>2. AgentIsAlone'
  BY DEF Exit, Ends, Torn, Working, Rejected, Fails, Goes, ObsTypeOK, AgentStates,
         AgentIsAlone, DiskIsOwn, Acting
<1>3. KnowledgeIsTrue'
  BY BoundsAssumption DEF Exit, Ends, Torn, Working, Rejected, Fails, Goes, ObsTypeOK, KnowledgeIsTrue,
                          KnowledgeComesInTime, AgentStates, LogStates, WatchStates,
                          Knowledge, StopReasons
<1>4. KnowledgeComesInTime'
  BY DEF Exit, Ends, Torn, Working, Rejected, Fails, Goes, ObsTypeOK, KnowledgeIsTrue, KnowledgeComesInTime,
         AgentStates, LogStates, WatchStates, Knowledge, StopReasons
<1>5. ReceiptIsTold'
  BY ReceiptStaysTold DEF Exit, Ends, Torn, Working, Rejected, Fails, Goes, AgentIsAlone, Acting
<1> QED BY <1>1, <1>2, <1>3, <1>4, <1>5

LEMMA TimePassesStep == ASSUME ObsInv, TimePasses PROVE ObsInv'
<1> USE DEF ObsInv
<1>1. ObsTypeOK'
  <2> USE DEF TimePasses, ObsTypeOK
  <2>1. phase' \in Phases /\ cell' \in Cells /\ receipt' \in Seq(Receipts)
    BY DEF Phases, Acting
  <2>2. agent' \in AgentStates
    BY DEF AgentStates, StopReasons
  <2>3. log' \in LogStates /\ watch' \in WatchStates
    BY BoundsAssumption DEF LogStates, WatchStates
  <2>4. late' \in BOOLEAN
    OBVIOUS
  <2>5. local' \in Knowledge
    BY DEF Knowledge, StopReasons
  <2> QED BY <2>1, <2>2, <2>3, <2>4, <2>5
<1>2. AgentIsAlone'
  BY DEF TimePasses, ObsTypeOK, AgentStates, AgentIsAlone, DiskIsOwn, Acting
<1>3. KnowledgeIsTrue'
  BY BoundsAssumption DEF TimePasses, ObsTypeOK, KnowledgeIsTrue, KnowledgeComesInTime,
                          AgentStates, LogStates, WatchStates, Knowledge, StopReasons
<1>4. KnowledgeComesInTime'
  BY DEF TimePasses, ObsTypeOK, KnowledgeIsTrue, KnowledgeComesInTime, AgentStates,
         LogStates, WatchStates, Knowledge, StopReasons
<1>5. ReceiptIsTold'
  BY ReceiptStaysTold DEF TimePasses, AgentIsAlone, Acting
<1> QED BY <1>1, <1>2, <1>3, <1>4, <1>5

LEMMA ExpireStep == ASSUME ObsInv, Expire PROVE ObsInv'
<1> USE DEF ObsInv
<1>1. ObsTypeOK'
  <2> USE DEF Expire, Goes, ObsTypeOK
  <2>1. phase' \in Phases /\ cell' \in Cells /\ receipt' \in Seq(Receipts)
    BY DEF Phases, Acting
  <2>2. agent' \in AgentStates
    BY DEF AgentStates, StopReasons
  <2>3. log' \in LogStates /\ watch' \in WatchStates
    BY BoundsAssumption DEF LogStates, WatchStates
  <2>4. late' \in BOOLEAN
    OBVIOUS
  <2>5. local' \in Knowledge
    BY DEF Knowledge, StopReasons
  <2> QED BY <2>1, <2>2, <2>3, <2>4, <2>5
<1>2. AgentIsAlone'
  BY DEF Expire, Goes, ObsTypeOK, AgentStates, AgentIsAlone, DiskIsOwn, Acting
<1>3. KnowledgeIsTrue'
  BY BoundsAssumption DEF Expire, Goes, ObsTypeOK, KnowledgeIsTrue,
                          KnowledgeComesInTime, AgentStates, LogStates, WatchStates,
                          Knowledge, StopReasons
<1>4. KnowledgeComesInTime'
  BY DEF Expire, Goes, ObsTypeOK, KnowledgeIsTrue, KnowledgeComesInTime, AgentStates,
         LogStates, WatchStates, Knowledge, StopReasons
<1>5. ReceiptIsTold'
  BY ReceiptStaysTold DEF Expire, Goes, AgentIsAlone, Acting
<1> QED BY <1>1, <1>2, <1>3, <1>4, <1>5

LEMMA GraceEndsStep == ASSUME ObsInv, GraceEnds PROVE ObsInv'
<1> USE DEF ObsInv
<1>1. ObsTypeOK'
  <2> USE DEF GraceEnds, Goes, ObsTypeOK
  <2>1. phase' \in Phases /\ cell' \in Cells /\ receipt' \in Seq(Receipts)
    BY DEF Phases, Acting
  <2>2. agent' \in AgentStates
    BY DEF AgentStates, StopReasons
  <2>3. log' \in LogStates /\ watch' \in WatchStates
    BY BoundsAssumption DEF LogStates, WatchStates
  <2>4. late' \in BOOLEAN
    OBVIOUS
  <2>5. local' \in Knowledge
    BY DEF Knowledge, StopReasons
  <2> QED BY <2>1, <2>2, <2>3, <2>4, <2>5
<1>2. AgentIsAlone'
  BY DEF GraceEnds, Goes, ObsTypeOK, AgentStates, AgentIsAlone, DiskIsOwn, Acting
<1>3. KnowledgeIsTrue'
  BY BoundsAssumption DEF GraceEnds, Goes, ObsTypeOK, KnowledgeIsTrue,
                          KnowledgeComesInTime, AgentStates, LogStates, WatchStates,
                          Knowledge, StopReasons
<1>4. KnowledgeComesInTime'
  BY DEF GraceEnds, Goes, ObsTypeOK, KnowledgeIsTrue, KnowledgeComesInTime, AgentStates,
         LogStates, WatchStates, Knowledge, StopReasons
<1>5. ReceiptIsTold'
  BY ReceiptStaysTold DEF GraceEnds, Goes, AgentIsAlone, Acting
<1> QED BY <1>1, <1>2, <1>3, <1>4, <1>5

LEMMA SeekStep == ASSUME ObsInv, Seek PROVE ObsInv'
<1> USE DEF ObsInv
<1>1. ObsTypeOK'
  <2> USE DEF Seek, ObsTypeOK
  <2>1. phase' \in Phases /\ cell' \in Cells /\ receipt' \in Seq(Receipts)
    BY DEF Phases, Acting
  <2>2. agent' \in AgentStates
    BY DEF AgentStates, StopReasons
  <2>3. log' \in LogStates /\ watch' \in WatchStates
    BY BoundsAssumption DEF LogStates, WatchStates
  <2>4. late' \in BOOLEAN
    OBVIOUS
  <2>5. local' \in Knowledge
    BY DEF Knowledge, StopReasons
  <2> QED BY <2>1, <2>2, <2>3, <2>4, <2>5
<1>2. AgentIsAlone'
  BY DEF Seek, ObsTypeOK, AgentStates, AgentIsAlone, DiskIsOwn, Acting
<1>3. KnowledgeIsTrue'
  BY BoundsAssumption DEF Seek, ObsTypeOK, KnowledgeIsTrue, KnowledgeComesInTime,
                          AgentStates, LogStates, WatchStates, Knowledge, StopReasons
<1>4. KnowledgeComesInTime'
  BY DEF Seek, ObsTypeOK, KnowledgeIsTrue, KnowledgeComesInTime, AgentStates, LogStates,
         WatchStates, Knowledge, StopReasons
<1>5. ReceiptIsTold'
  BY ReceiptStaysTold DEF Seek, AgentIsAlone, Acting
<1> QED BY <1>1, <1>2, <1>3, <1>4, <1>5

LEMMA PollStep == ASSUME ObsInv, Poll PROVE ObsInv'
<1> USE DEF ObsInv
<1>1. ObsTypeOK'
  <2> USE DEF Poll, Readable, Exhausted, ObsTypeOK
  <2>1. phase' \in Phases /\ cell' \in Cells /\ receipt' \in Seq(Receipts)
    BY DEF Phases, Acting
  <2>2. agent' \in AgentStates
    BY DEF AgentStates, StopReasons
  <2>3. log' \in LogStates /\ watch' \in WatchStates
    BY BoundsAssumption DEF LogStates, WatchStates
  <2>4. late' \in BOOLEAN
    OBVIOUS
  <2>5. local' \in Knowledge
    BY DEF Knowledge, StopReasons
  <2> QED BY <2>1, <2>2, <2>3, <2>4, <2>5
<1>2. AgentIsAlone'
  BY DEF Poll, Readable, Exhausted, ObsTypeOK, AgentStates, AgentIsAlone, DiskIsOwn, Acting
<1>3. KnowledgeIsTrue'
  <2> DEFINE reason == Exhausted(watch.seen)
  <2>1. UNCHANGED <<agent, log, late>> /\ local'.stopReason = local.stopReason
    BY DEF Poll, ObsTypeOK, Knowledge
  <2>2. watch'.seen \in {watch.seen, log.completions}
    BY DEF Poll, ObsTypeOK, WatchStates
  <2>3. local'.budget = local.budget \/ local'.budget = reason
    BY DEF Poll, ObsTypeOK, Knowledge
  <2>4. /\ reason = "PROVIDER_COMPLETIONS" => watch.seen > Limit
        /\ reason = "WALL_TIME" => late
    BY DEF Exhausted
  <2>5. watch.seen \in Nat /\ log.completions \in Nat /\ Limit \in Nat
    BY BoundsAssumption DEF ObsTypeOK, WatchStates, LogStates
  <2> QED BY <2>1, <2>2, <2>3, <2>4, <2>5 DEF KnowledgeIsTrue
<1>4. KnowledgeComesInTime'
  BY DEF Poll, Readable, Exhausted, ObsTypeOK, KnowledgeIsTrue, KnowledgeComesInTime,
         AgentStates, LogStates, WatchStates, Knowledge, StopReasons
<1>5. ReceiptIsTold'
  BY ReceiptStaysTold DEF Poll, Readable, Exhausted, AgentIsAlone, Acting
<1> QED BY <1>1, <1>2, <1>3, <1>4, <1>5

LEMMA WatchedStep == ASSUME ObsInv, Watched PROVE ObsInv'
<1> USE DEF ObsInv
<1>1. ObsTypeOK'
  <2> USE DEF Watched, Goes, Exhausted, ObsTypeOK
  <2>1. phase' \in Phases /\ cell' \in Cells /\ receipt' \in Seq(Receipts)
    BY DEF Phases, Acting
  <2>2. agent' \in AgentStates
    BY DEF AgentStates, StopReasons
  <2>3. log' \in LogStates /\ watch' \in WatchStates
    BY BoundsAssumption DEF LogStates, WatchStates
  <2>4. late' \in BOOLEAN
    OBVIOUS
  <2>5. local' \in Knowledge
    BY DEF Knowledge, StopReasons
  <2> QED BY <2>1, <2>2, <2>3, <2>4, <2>5
<1>2. AgentIsAlone'
  BY DEF Watched, Goes, Exhausted, ObsTypeOK, AgentStates, AgentIsAlone, DiskIsOwn, Acting
<1>3. KnowledgeIsTrue'
  BY BoundsAssumption DEF Watched, Goes, Exhausted, ObsTypeOK, KnowledgeIsTrue,
                          KnowledgeComesInTime, AgentStates, LogStates, WatchStates,
                          Knowledge, StopReasons
<1>4. KnowledgeComesInTime'
  <2>1. /\ phase = "watching" /\ local.session /\ phase' \in {"closing", "terminating"}
        /\ local' = [local EXCEPT !.budget = IF local.budget = "none"
                                             THEN Exhausted(watch.seen) ELSE local.budget]
        /\ UNCHANGED <<agent, watch>>
    BY DEF Watched, Goes, KnowledgeComesInTime
  <2>2. /\ local'.budget = IF local.budget = "none" THEN Exhausted(watch.seen) ELSE local.budget
        /\ local'.stopReason = local.stopReason /\ local'.session = local.session
    BY <2>1 DEF ObsTypeOK, Knowledge
  <2>3. agent.overtime => local'.budget # "none"
    BY <2>2, BoundsAssumption DEF KnowledgeIsTrue, Exhausted, ObsTypeOK, WatchStates
  <2> QED BY <2>1, <2>2, <2>3 DEF KnowledgeComesInTime
<1>5. ReceiptIsTold'
  BY ReceiptStaysTold DEF Watched, Goes, Exhausted, AgentIsAlone, Acting
<1> QED BY <1>1, <1>2, <1>3, <1>4, <1>5

LEMMA CloseStep == ASSUME ObsInv, Close PROVE ObsInv'
<1> USE DEF ObsInv
<1>1. ObsTypeOK'
  <2> USE DEF Close, Goes, ObsTypeOK
  <2>1. phase' \in Phases /\ cell' \in Cells /\ receipt' \in Seq(Receipts)
    BY DEF Phases, Acting
  <2>2. agent' \in AgentStates
    BY DEF AgentStates, StopReasons
  <2>3. log' \in LogStates /\ watch' \in WatchStates
    BY BoundsAssumption DEF LogStates, WatchStates
  <2>4. late' \in BOOLEAN
    OBVIOUS
  <2>5. local' \in Knowledge
    BY DEF Knowledge, StopReasons
  <2> QED BY <2>1, <2>2, <2>3, <2>4, <2>5
<1>2. AgentIsAlone'
  BY DEF Close, Goes, ObsTypeOK, AgentStates, AgentIsAlone, DiskIsOwn, Acting
<1>3. KnowledgeIsTrue'
  BY BoundsAssumption DEF Close, Goes, ObsTypeOK, KnowledgeIsTrue, KnowledgeComesInTime,
                          AgentStates, LogStates, WatchStates, Knowledge, StopReasons
<1>4. KnowledgeComesInTime'
  BY DEF Close, Goes, ObsTypeOK, KnowledgeIsTrue, KnowledgeComesInTime, AgentStates,
         LogStates, WatchStates, Knowledge, StopReasons
<1>5. ReceiptIsTold'
  BY ReceiptStaysTold DEF Close, Goes, AgentIsAlone, Acting
<1> QED BY <1>1, <1>2, <1>3, <1>4, <1>5

LEMMA TerminateStep == ASSUME ObsInv, Terminate PROVE ObsInv'
<1> USE DEF ObsInv
<1>1. ObsTypeOK'
  <2> USE DEF Terminate, Ends, Torn, Goes, Working, ObsTypeOK
  <2>1. phase' \in Phases /\ cell' \in Cells /\ receipt' \in Seq(Receipts)
    BY DEF Phases, Acting
  <2>2. agent' \in AgentStates
    BY DEF AgentStates, StopReasons
  <2>3. log' \in LogStates /\ watch' \in WatchStates
    BY BoundsAssumption DEF LogStates, WatchStates
  <2>4. late' \in BOOLEAN
    OBVIOUS
  <2>5. local' \in Knowledge
    BY DEF Knowledge, StopReasons
  <2> QED BY <2>1, <2>2, <2>3, <2>4, <2>5
<1>2. AgentIsAlone'
  BY DEF Terminate, Ends, Torn, Goes, Working, ObsTypeOK, AgentStates,
         AgentIsAlone, DiskIsOwn, Acting
<1>3. KnowledgeIsTrue'
  BY BoundsAssumption DEF Terminate, Ends, Torn, Goes, Working, ObsTypeOK, KnowledgeIsTrue,
                          KnowledgeComesInTime, AgentStates, LogStates, WatchStates,
                          Knowledge, StopReasons
<1>4. KnowledgeComesInTime'
  BY DEF Terminate, Ends, Torn, Goes, Working, ObsTypeOK, KnowledgeIsTrue, KnowledgeComesInTime,
         AgentStates, LogStates, WatchStates, Knowledge, StopReasons
<1>5. ReceiptIsTold'
  BY ReceiptStaysTold DEF Terminate, Ends, Torn, Goes, Working, AgentIsAlone, Acting
<1> QED BY <1>1, <1>2, <1>3, <1>4, <1>5

LEMMA RemoveStep == ASSUME ObsInv, Remove PROVE ObsInv'
<1> USE DEF ObsInv
<1>1. ObsTypeOK'
  <2> USE DEF Remove, Goes, ObsTypeOK
  <2>1. phase' \in Phases /\ cell' \in Cells /\ receipt' \in Seq(Receipts)
    BY DEF Phases, Acting
  <2>2. agent' \in AgentStates
    BY DEF AgentStates, StopReasons
  <2>3. log' \in LogStates /\ watch' \in WatchStates
    BY BoundsAssumption DEF LogStates, WatchStates
  <2>4. late' \in BOOLEAN
    OBVIOUS
  <2>5. local' \in Knowledge
    BY DEF Knowledge, StopReasons
  <2> QED BY <2>1, <2>2, <2>3, <2>4, <2>5
<1>2. AgentIsAlone'
  BY DEF Remove, Goes, ObsTypeOK, AgentStates, AgentIsAlone, DiskIsOwn, Acting
<1>3. KnowledgeIsTrue'
  BY BoundsAssumption DEF Remove, Goes, ObsTypeOK, KnowledgeIsTrue,
                          KnowledgeComesInTime, AgentStates, LogStates, WatchStates,
                          Knowledge, StopReasons
<1>4. KnowledgeComesInTime'
  BY DEF Remove, Goes, ObsTypeOK, KnowledgeIsTrue, KnowledgeComesInTime, AgentStates,
         LogStates, WatchStates, Knowledge, StopReasons
<1>5. ReceiptIsTold'
  BY ReceiptStaysTold DEF Remove, Goes, AgentIsAlone, Acting
<1> QED BY <1>1, <1>2, <1>3, <1>4, <1>5

LEMMA ForgetsStep == ASSUME ObsInv, Forgets, phase' \in {"idle", "thrown"} PROVE ObsInv'
<1> USE DEF ObsInv
<1>1. ObsTypeOK'
  <2> USE DEF Forgets, NoAgent, NoLog, NoWatch, Nothing, ObsTypeOK
  <2>1. phase' \in Phases /\ cell' \in Cells /\ receipt' \in Seq(Receipts)
    BY DEF Phases, Acting
  <2>2. agent' \in AgentStates
    BY DEF AgentStates, StopReasons
  <2>3. log' \in LogStates /\ watch' \in WatchStates
    BY BoundsAssumption DEF LogStates, WatchStates
  <2>4. late' \in BOOLEAN
    OBVIOUS
  <2>5. local' \in Knowledge
    BY DEF Knowledge, StopReasons
  <2> QED BY <2>1, <2>2, <2>3, <2>4, <2>5
<1>2. AgentIsAlone'
  BY DEF Forgets, NoAgent, AgentIsAlone, DiskIsOwn, Acting
<1>3. KnowledgeIsTrue'
  BY DEF Forgets, NoAgent, NoLog, NoWatch, Nothing, KnowledgeIsTrue
<1>4. KnowledgeComesInTime'
  BY DEF Forgets, NoAgent, NoWatch, Nothing, KnowledgeComesInTime
<1>5. ReceiptIsTold'
  BY DEF ReceiptIsTold
<1> QED BY <1>1, <1>2, <1>3, <1>4, <1>5

LEMMA PrepareStep == ASSUME ObsInv, NEW c \in {"B", "C"}, Prepare(c) PROVE ObsInv'
<1> USE DEF ObsInv
<1>1. /\ phase = "idle" /\ cell' = c /\ UNCHANGED <<agent, log, watch, late, local, receipt>>
      /\ \/ phase' = "starting" /\ \A p \in disk' : p[1] = c
         \/ phase' = "thrown"
  BY DEF Prepare, Goes
<1>2. ObsTypeOK'
  BY <1>1 DEF ObsTypeOK, Phases, Cells
<1>3. AgentIsAlone'
  BY <1>1 DEF AgentIsAlone, DiskIsOwn, Acting
<1>4. KnowledgeIsTrue' /\ KnowledgeComesInTime'
  BY <1>1 DEF KnowledgeIsTrue, KnowledgeComesInTime
<1>5. ReceiptIsTold'
  BY <1>1 DEF ReceiptIsTold
<1> QED BY <1>2, <1>3, <1>4, <1>5

\* What an agent writes that lives on is its own.
LEMMA LingerStep == ASSUME ObsInv, Linger PROVE ObsInv'
<1> USE DEF ObsInv
<1>1. /\ \E c \in survivors : disk' = disk \cup {<<c, "workspace">>}
      /\ UNCHANGED <<phase, cell, agent, log, watch, late, local, receipt, survivors>>
  BY DEF Linger
<1>2. ObsTypeOK'
  BY <1>1 DEF ObsTypeOK
<1>3. AgentIsAlone'
  BY <1>1 DEF AgentIsAlone, DiskIsOwn
<1>4. KnowledgeIsTrue' /\ KnowledgeComesInTime'
  BY <1>1 DEF KnowledgeIsTrue, KnowledgeComesInTime
<1>5. ReceiptIsTold'
  BY <1>1, ReceiptStaysTold
<1> QED BY <1>2, <1>3, <1>4, <1>5

-----------------------------------------------------------------------------
\* What the last reading of the log tells.
LEMMA WhatWasRead ==
    ASSUME ObsTypeOK
    PROVE  /\ Read \in Knowledge
           /\ Read.session = local.session /\ Read.stop = local.stop
           /\ Read.stopReason = local.stopReason /\ Read.budget = local.budget
           /\ ~Read.infrastructure /\ local.session => Readable /\ Interacted
           /\ Read.drift = (local.session /\ Readable /\ Interacted /\ log.models # {"frozen"})
<1> DEFINE unread == local.session /\ ~Readable
           silent == local.session /\ Readable /\ ~Interacted
           telemetry == local.telemetry \/ unread
           infrastructure == local.infrastructure \/ local.telemetry \/ unread \/ silent
           drift == local.session /\ Readable /\ Interacted /\ log.models # {"frozen"}
<1>1. Read = [local EXCEPT !.telemetry = telemetry, !.infrastructure = infrastructure,
                           !.drift = drift]
  BY DEF Read
<1>2. unread \in BOOLEAN /\ silent \in BOOLEAN
  BY DEF ObsTypeOK, Knowledge, Readable, Interacted
<1>3. telemetry \in BOOLEAN /\ infrastructure \in BOOLEAN /\ drift \in BOOLEAN
  BY <1>2 DEF ObsTypeOK, Knowledge, Readable, Interacted
<1>4. infrastructure \/ ~local.session \/ (Readable /\ Interacted)
  OBVIOUS
<1> HIDE DEF telemetry, infrastructure
<1> QED BY <1>1, <1>3, <1>4 DEF ObsTypeOK, Knowledge

\* The receipt of an observation tells what the agent and the log say of it,
\* whatever the watchdog has seen of them.
LEMMA ReceiptIsTrue ==
    ASSUME ObsInv, phase = "reading",
           NEW terminal, terminal = Terminal(Read, Reconciled(Read, Completions)),
           NEW success \in BOOLEAN,
           success => terminal \in {"COMPLETED", "REFUSAL"} /\ agent.workspace = "solved"
    PROVE  /\ terminal \in {"INFRASTRUCTURE_FAILURE", "RESOURCE_EXHAUSTED", "COMPLETED",
                            "CANCELLED", "REFUSAL"}
           /\ Told([cell |-> cell, terminal |-> terminal, drift |-> Read.drift,
                    success |-> success], Facts)
<1> USE DEF ObsInv
<1> DEFINE budget == Reconciled(Read, Completions)
<1>1. /\ Read \in Knowledge
      /\ Read.session = local.session
      /\ Read.stopReason = local.stopReason /\ Read.budget = local.budget
      /\ ~Read.infrastructure /\ local.session => Readable /\ Interacted
      /\ Read.drift = (local.session /\ Readable /\ Interacted /\ log.models # {"frozen"})
  BY WhatWasRead
<1>2. /\ terminal = "RESOURCE_EXHAUSTED" =>
             ~Read.infrastructure /\ (budget # "none" \/ local.stopReason = "max_tokens")
      /\ terminal = "COMPLETED" =>
             ~Read.infrastructure /\ budget = "none" /\ local.stopReason = "end_turn"
      /\ terminal = "REFUSAL" =>
             ~Read.infrastructure /\ budget = "none" /\ local.stopReason = "refusal"
      /\ terminal \in {"INFRASTRUCTURE_FAILURE", "RESOURCE_EXHAUSTED", "COMPLETED",
                       "CANCELLED", "REFUSAL"}
  BY <1>1 DEF Terminal
<1>3. /\ log.completions \in Nat /\ Limit \in Nat
      /\ Completions = IF local.session /\ Readable THEN log.completions ELSE 0
  BY BoundsAssumption DEF ObsTypeOK, LogStates, Completions
<1>4. budget = IF local.budget = "none" /\ Completions > Limit THEN "PROVIDER_COMPLETIONS"
               ELSE local.budget
  BY <1>1 DEF Reconciled
<1>5. budget # "none" => /\ local.session
                         /\ log.completions > Limit \/ late
  <2>1. local.budget \in {"none", "PROVIDER_COMPLETIONS", "WALL_TIME"}
    BY DEF ObsTypeOK, Knowledge
  <2> QED BY <1>3, <1>4, <2>1 DEF KnowledgeIsTrue, KnowledgeComesInTime
<1>6. local.stopReason # "none" => local.session /\ agent.turn = local.stopReason
  BY DEF KnowledgeIsTrue, KnowledgeComesInTime
<1> HIDE DEF budget
<1>7. ASSUME success PROVE Facts.earned
  <2>1. /\ ~Read.infrastructure /\ budget = "none" /\ agent.turn \in {"end_turn", "refusal"}
        /\ local.session /\ local.stopReason # "none"
    BY <1>2, <1>6, <1>7
  <2>2. Readable
    BY <1>1, <2>1
  <2>3. local.budget = "none" /\ log.completions <= Limit
    BY <1>3, <1>4, <2>1, <2>2
  <2>4. ~agent.overtime
    BY <2>1, <2>3 DEF KnowledgeComesInTime
  <2> QED BY <1>7, <2>1, <2>3, <2>4 DEF Facts
<1>8. ASSUME terminal = "RESOURCE_EXHAUSTED" PROVE Facts.exceeded
  BY <1>2, <1>5, <1>6, <1>8 DEF Facts
<1>9. Read.drift => Facts.models = "other"
  BY <1>1 DEF Facts, Interacted
<1>10. ASSUME ~Read.drift, terminal \in {"COMPLETED", "RESOURCE_EXHAUSTED", "REFUSAL"}
       PROVE  Facts.models = "frozen"
  <2>1. ~Read.infrastructure /\ local.session
    BY <1>2, <1>5, <1>6, <1>10
  <2>2. Interacted /\ log.models = {"frozen"}
    BY <1>1, <1>10, <2>1
  <2> QED BY <2>2 DEF Facts, Interacted
<1> QED BY <1>2, <1>7, <1>8, <1>9, <1>10 DEF Told, ResolvedReceipt

LEMMA ConcludeStep == ASSUME ObsInv, Conclude PROVE ObsInv'
<1> USE DEF ObsInv
<1> DEFINE terminal == Terminal(Read, Reconciled(Read, Completions))
<1>1. /\ phase = "reading" /\ phase' = "removing" /\ local' = Nothing /\ watch' = NoWatch
      /\ UNCHANGED <<cell, disk, agent, log, late, survivors>>
  BY DEF Conclude, Goes
<1>2. PICK grade \in IF Gradeable(terminal) THEN Grades ELSE {"not-run"} :
          receipt' = <<[cell |-> cell, terminal |-> terminal, drift |-> Read.drift,
                        success |-> terminal \in {"COMPLETED", "REFUSAL"} /\ grade = "pass"]>>
  BY DEF Conclude
<1> DEFINE success == terminal \in {"COMPLETED", "REFUSAL"} /\ grade = "pass"
<1>3. success \in BOOLEAN
  OBVIOUS
<1>4. success => terminal \in {"COMPLETED", "REFUSAL"} /\ agent.workspace = "solved"
  BY DEF Grades, Gradeable
<1>5. PICK r \in Receipts : /\ receipt' = <<r>> /\ r.cell = cell /\ Told(r, Facts)
  <2> DEFINE r == [cell |-> cell, terminal |-> terminal, drift |-> Read.drift,
                   success |-> success]
  <2>1. receipt' = <<r>>
    BY <1>2
  <2> HIDE DEF success, terminal
  <2>2. /\ terminal \in {"INFRASTRUCTURE_FAILURE", "RESOURCE_EXHAUSTED", "COMPLETED",
                         "CANCELLED", "REFUSAL"}
        /\ Told(r, Facts)
    BY <1>1, <1>3, <1>4, ReceiptIsTrue DEF terminal
  <2>3. Read.drift \in BOOLEAN
    BY WhatWasRead DEF Knowledge
  <2>4. r \in Receipts
    BY <1>3, <2>2, <2>3 DEF Receipts, ObsTypeOK
  <2> QED BY <2>1, <2>2, <2>4
<1>6. ObsTypeOK'
  <2>1. watch' \in WatchStates /\ local' \in Knowledge
    BY <1>1 DEF Nothing, NoWatch, WatchStates, Knowledge
  <2> QED BY <1>1, <1>5, <2>1 DEF ObsTypeOK, Phases
<1>7. AgentIsAlone'
  BY <1>1 DEF AgentIsAlone, DiskIsOwn, Acting
<1>8. KnowledgeIsTrue' /\ KnowledgeComesInTime'
  <2>1. log.completions \in Nat
    BY DEF ObsTypeOK, LogStates
  <2> QED BY <1>1, <2>1 DEF Nothing, NoWatch, KnowledgeIsTrue, KnowledgeComesInTime
<1>9. ReceiptIsTold'
  <2>1. Facts' = Facts
    BY <1>1 DEF Facts
  <2> QED BY <1>1, <1>5, <2>1 DEF ReceiptIsTold
<1> QED BY <1>6, <1>7, <1>8, <1>9

\* Whatever runObservation, its timers or its agent do.
LEMMA ObservationStep ==
    ASSUME ObsInv, Runs \/ Agents \/ TimePasses
    PROVE  ObsInv' /\ (phase = "idle" => phase' = "idle") /\ cell' = cell
<1>1. ObsInv'
  BY StartStep, ExpireStep, GraceEndsStep, SeekStep, PollStep, WatchedStep, TerminateStep,
     ConcludeStep, RemoveStep, HandshakeStep, CompleteStep, BeginLogStep, WorkStep, AnswerStep,
     ExitStep, CloseStep, LingerStep, TimePassesStep DEF Runs, Agents
<1>2. ASSUME Runs \/ TimePasses PROVE phase # "idle" /\ cell' = cell
  BY <1>2 DEF Runs, TimePasses, Start, Expire, GraceEnds, Seek, Poll, Watched, Terminate, Conclude,
              Remove
<1>3. ASSUME Agents PROVE (phase = "idle" => phase' = "idle") /\ cell' = cell
  BY <1>3 DEF Agents, Handshake, Complete, BeginLog, Work, Answer, Exit, Close, Linger, Working,
              ObsInv, AgentIsAlone, Acting
<1> QED BY <1>1, <1>2, <1>3

LEMMA ObsUnchanged == ASSUME ObsInv, UNCHANGED obsVars PROVE ObsInv'
<1> USE DEF ObsInv, obsVars
<1>1. ObsTypeOK' /\ AgentIsAlone'
  BY DEF ObsTypeOK, AgentIsAlone, DiskIsOwn
<1>2. KnowledgeIsTrue' /\ KnowledgeComesInTime'
  BY DEF KnowledgeIsTrue, KnowledgeComesInTime
<1>3. ReceiptIsTold'
  BY ReceiptStaysTold
<1> QED BY <1>1, <1>2, <1>3

\* A report says the same as long as there are the same receipts.
LEMMA SameReport == ASSUME UNCHANGED <<retained, table>> PROVE ReportOf(retained)' = ReportOf(retained)
BY DEF ReportOf

\* A run that changes nothing but the stage it is at.
LEMMA StageKeepsInv ==
    ASSUME RunInv, stage' \in {"running", "flushing", "reporting", "ended", "failed", "crashed"},
           UNCHANGED <<table, retained, truth>>,
           phase' \notin {"idle", "thrown"} => stage' = "running",
           stage' = "running" =>
               /\ stopReason' = "none" /\ report' = <<>>
               /\ phase' # "idle" => /\ Len(retained) < Len(Schedule)
                                     /\ cell' = Schedule[Len(retained) + 1],
           stage' = "failed" => Len(retained) < Len(Schedule),
           \/ UNCHANGED stopReason
           \/ Len(retained) < Len(Schedule) /\ stopReason' = "RUN_BUDGET_EXHAUSTED",
           \/ UNCHANGED <<report, published>> /\ (report # <<>> => stage' \in {"ended", "failed"})
           \/ /\ report' = <<ReportOf(retained)>> /\ stage' \in {"ended", "failed"}
              /\ published' => published \/ Publishable(ReportOf(retained))
    PROVE  RunInv'
<1> USE DEF RunInv
<1>1. ScheduleIsKept'
  BY DEF ScheduleIsKept, Told, ResolvedReceipt
<1>2. StopIsSeen'
  BY DEF StopIsSeen, ResolvedReceipt
<1>3. ReportIsOfTheReceipts'
  <2>1. ReportOf(retained)' = ReportOf(retained)
    BY SameReport
  <2>2. CASE UNCHANGED <<report, published>> /\ (report # <<>> => stage' \in {"ended", "failed"})
    BY <2>1, <2>2 DEF ReportIsOfTheReceipts, Publishable
  <2>3. CASE /\ report' = <<ReportOf(retained)>> /\ stage' \in {"ended", "failed"}
             /\ published' => published \/ Publishable(ReportOf(retained))
    <3>1. report' # <<>> /\ report'[1] = ReportOf(retained)'
      BY <2>1, <2>3
    <3>2. published' => Publishable(report'[1])
      BY <2>1, <2>3, <3>1 DEF ReportIsOfTheReceipts, Publishable
    <3> QED BY <2>3, <3>1, <3>2 DEF ReportIsOfTheReceipts, Publishable
  <2> QED BY <2>2, <2>3
<1> QED BY <1>1, <1>2, <1>3

LEMMA ObserveStep == ASSUME ObsInv, RunInv, Observe PROVE ObsInv' /\ RunInv'
<1>1. /\ stage = "running" /\ phase = "idle" /\ Len(retained) < Len(Schedule)
      /\ retained \in Seq(Receipts) /\ Len(retained) \in Nat
  BY DEF Observe, RunInv, ScheduleIsKept
<1>2. Schedule[Len(retained) + 1] \in {"B", "C"}
  BY <1>1, ScheduleAssumption
<1>3. CASE Prepare(Schedule[Len(retained) + 1]) /\ UNCHANGED campaignVars
  <2>1. ObsInv'
    BY <1>2, <1>3, PrepareStep
  <2>2. cell' = Schedule[Len(retained) + 1]
    BY <1>3 DEF Prepare
  <2>3. stopReason = "none" /\ report = <<>>
    BY <1>1 DEF RunInv, ScheduleIsKept
  <2>4. RunInv'
    BY <1>1, <1>3, <2>2, <2>3, StageKeepsInv DEF campaignVars
  <2> QED BY <2>1, <2>4
<1>4. CASE /\ stage' = "flushing" /\ stopReason' = "RUN_BUDGET_EXHAUSTED"
           /\ UNCHANGED <<obsVars, table, retained, report, published, truth>>
  <2>1. ObsInv'
    BY <1>4, ObsUnchanged
  <2>2. report = <<>> /\ phase' = "idle"
    BY <1>1, <1>4 DEF RunInv, ScheduleIsKept, obsVars
  <2>3. RunInv'
    BY <1>1, <1>4, <2>2, StageKeepsInv
  <2> QED BY <2>1, <2>3
<1> QED BY <1>3, <1>4 DEF Observe

\* An observation has ended: the receipt joins those before it.
LEMMA RecordStep == ASSUME ObsInv, RunInv, Record PROVE ObsInv' /\ RunInv'
<1> USE DEF ObsInv, RunInv
<1> DEFINE r == receipt[1]
<1>1. /\ stage = "running" /\ phase = "ended" /\ phase' = "idle" /\ Return
      /\ retained' = Append(retained, r) /\ stopReason' = StopFor(r)
      /\ truth' = Append(truth, Facts)
      /\ stage' = IF StopFor(r) # "none" \/ Len(retained') = Len(Schedule)
                  THEN "flushing" ELSE stage
      /\ UNCHANGED <<table, report, published>>
  BY DEF Record, Return
<1>2. /\ r \in Receipts /\ r.cell = cell /\ Told(r, Facts)
  <2>1. receipt \in Seq(Receipts) /\ Len(receipt) = 1
    BY <1>1 DEF ObsTypeOK, ReceiptIsTold
  <2>2. receipt[1] \in Receipts
    BY <2>1
  <2>3. receipt[1].cell = cell /\ Told(receipt[1], Facts)
    BY <1>1 DEF ReceiptIsTold
  <2> QED BY <2>2, <2>3
<1>3. Facts \in FactsOfACell
  BY DEF Facts, FactsOfACell, ObsTypeOK, LogStates, AgentStates
<1>4. /\ retained \in Seq(Receipts) /\ truth \in Seq(FactsOfACell) /\ Len(truth) = Len(retained)
      /\ stopReason = "none" /\ report = <<>> /\ cell = Schedule[Len(retained) + 1]
      /\ Len(retained) < Len(Schedule)
  BY <1>1 DEF ScheduleIsKept
<1> HIDE DEF r
<1>5. /\ retained' \in Seq(Receipts) /\ truth' \in Seq(FactsOfACell)
      /\ Len(truth') = Len(retained') /\ Len(retained') = Len(retained) + 1
      /\ retained'[Len(retained')] = r /\ truth'[Len(retained')] = Facts
      /\ \A i \in DOMAIN retained : retained'[i] = retained[i] /\ truth'[i] = truth[i]
      /\ DOMAIN retained' = DOMAIN retained \cup {Len(retained')}
      /\ DOMAIN truth' = DOMAIN retained'
  BY <1>1, <1>2, <1>3, <1>4
<1>6. ObsInv'
  BY <1>1, ForgetsStep DEF Return
<1>7. /\ StopFor(r) \in {"none", "INFRASTRUCTURE_FAILURE", "MODEL_IDENTITY_DRIFT"}
      /\ StopFor(r) # "none" => ~ResolvedReceipt(r)
      /\ StopFor(r) = "MODEL_IDENTITY_DRIFT" => r.drift
  BY DEF StopFor, ResolvedReceipt
<1>8. ScheduleIsKept'
  <2>1. \A i \in DOMAIN retained' : retained'[i].cell = Schedule[i] /\ Told(retained'[i], truth'[i])
    BY <1>2, <1>4, <1>5 DEF ScheduleIsKept
  <2> QED BY <1>1, <1>4, <1>5, <1>7, <2>1 DEF ScheduleIsKept, Told, ResolvedReceipt
<1>9. StopIsSeen'
  <2>1. stopReason' # "none" => \E i \in DOMAIN retained' : ~ResolvedReceipt(retained'[i])
    BY <1>1, <1>5, <1>7
  <2>2. stopReason' = "MODEL_IDENTITY_DRIFT" => \E i \in DOMAIN truth' : truth'[i].models = "other"
    BY <1>1, <1>2, <1>5, <1>7 DEF Told
  <2> QED BY <2>1, <2>2 DEF StopIsSeen, ResolvedReceipt
<1>10. ReportIsOfTheReceipts'
  BY <1>1, <1>4 DEF ReportIsOfTheReceipts
<1> QED BY <1>6, <1>8, <1>9, <1>10

\* The evidence goes to the disk when no agent is there to read it.
LEMMA FlushStep == ASSUME ObsInv, RunInv, Flush PROVE ObsInv' /\ RunInv'
<1>1. /\ \/ stage = "flushing" /\ stage' = "reporting"
         \/ stage = "running" /\ phase = "thrown" /\ stage' = "failed"
      /\ UNCHANGED <<phase, cell, agent, log, watch, late, local, receipt, survivors,
                     table, stopReason, retained, report, published, truth>>
  BY DEF Flush
<1>2. phase \in {"idle", "thrown"}
  BY <1>1 DEF RunInv, ScheduleIsKept
<1>3. ObsInv'
  <2> USE DEF ObsInv
  <2>1. ObsTypeOK'
    BY <1>1 DEF ObsTypeOK
  <2>2. AgentIsAlone'
    BY <1>1, <1>2 DEF AgentIsAlone, Acting
  <2>3. KnowledgeIsTrue' /\ KnowledgeComesInTime'
    BY <1>1 DEF KnowledgeIsTrue, KnowledgeComesInTime
  <2>4. ReceiptIsTold'
    BY <1>1, <1>2 DEF ReceiptIsTold
  <2> QED BY <2>1, <2>2, <2>3, <2>4
<1>4. report = <<>> /\ (stage' = "failed" => Len(retained) < Len(Schedule))
  BY <1>1 DEF RunInv, ScheduleIsKept, ReportIsOfTheReceipts
<1>5. RunInv'
  BY <1>1, <1>2, <1>4, StageKeepsInv
<1> QED BY <1>3, <1>5

\* An error that nothing catches leaves nothing of the observation.
LEMMA CrashStep == ASSUME ObsInv, RunInv, Crash PROVE ObsInv' /\ RunInv'
<1>1. /\ stage \in {"running", "flushing", "reporting"} /\ stage' = "crashed"
      /\ phase' = "thrown" /\ Forgets
      /\ UNCHANGED <<table, stopReason, retained, report, published, truth>>
  BY DEF Crash
<1>2. ObsInv'
  BY <1>1, ForgetsStep
<1>3. report = <<>>
  BY <1>1 DEF RunInv, ReportIsOfTheReceipts
<1>4. RunInv'
  BY <1>1, <1>3, StageKeepsInv
<1> QED BY <1>2, <1>4

LEMMA ReportStep == ASSUME ObsInv, RunInv, Report \/ Finalize PROVE ObsInv' /\ RunInv'
<1>1. /\ stage \in {"reporting", "ended", "failed"}
      /\ stage' \in {"ended", "failed"} /\ (stage' = "failed" => stage = "failed")
      /\ report' = <<ReportOf(retained)>>
      /\ published' => published \/ Publishable(ReportOf(retained))
      /\ UNCHANGED <<obsVars, table, stopReason, retained, truth>>
  BY DEF Report, Finalize
<1>2. ObsInv'
  BY <1>1, ObsUnchanged
<1>3. /\ phase' \in {"idle", "thrown"}
      /\ stage' = "failed" => Len(retained) < Len(Schedule)
  BY <1>1 DEF RunInv, ScheduleIsKept, obsVars
<1>4. RunInv'
  BY <1>1, <1>3, StageKeepsInv
<1> QED BY <1>2, <1>4

LEMMA InitCampaignInv == CampaignInit => ObsInv /\ RunInv
<1> SUFFICES ASSUME CampaignInit PROVE ObsInv /\ RunInv
  OBVIOUS
<1> USE DEF CampaignInit, ObsInit
<1>1. ObsTypeOK
  <2>1. agent \in AgentStates
    BY DEF AgentStates, NoAgent
  <2>2. log \in LogStates /\ watch \in WatchStates
    BY DEF LogStates, WatchStates, NoLog, NoWatch
  <2>3. local \in Knowledge
    BY DEF Knowledge, Nothing
  <2>4. receipt \in Seq(Receipts)
    OBVIOUS
  <2> QED BY <2>1, <2>2, <2>3, <2>4 DEF ObsTypeOK, Phases, Cells
<1>2. AgentIsAlone /\ KnowledgeIsTrue /\ KnowledgeComesInTime /\ ReceiptIsTold
  BY DEF AgentIsAlone, KnowledgeIsTrue, KnowledgeComesInTime, ReceiptIsTold, Acting, NoAgent,
         NoLog, NoWatch, Nothing
<1>3. ScheduleIsKept /\ StopIsSeen /\ ReportIsOfTheReceipts
  BY DEF ScheduleIsKept, StopIsSeen, ReportIsOfTheReceipts
<1> QED BY <1>1, <1>2, <1>3 DEF ObsInv, RunInv

LEMMA NextCampaignInv == ObsInv /\ RunInv /\ [CampaignNext]_vars => ObsInv' /\ RunInv'
<1> SUFFICES ASSUME ObsInv, RunInv, [CampaignNext]_vars PROVE ObsInv' /\ RunInv'
  OBVIOUS
<1>1. CASE UNCHANGED campaignVars /\ stage = "running" /\ (Runs \/ Agents \/ TimePasses)
  <2>1. ObsInv' /\ (phase = "idle" => phase' = "idle") /\ cell' = cell
    BY <1>1, ObservationStep
  <2>2. /\ stopReason = "none" /\ report = <<>>
        /\ phase' # "idle" => Len(retained) < Len(Schedule) /\ cell = Schedule[Len(retained) + 1]
    BY <1>1, <2>1 DEF RunInv, ScheduleIsKept
  <2>3. RunInv'
    BY <1>1, <2>1, <2>2, StageKeepsInv DEF campaignVars
  <2> QED BY <2>1, <2>3
<1>2. CASE UNCHANGED vars
  <2>1. ObsInv'
    BY <1>2, ObsUnchanged DEF vars
  <2>2. UNCHANGED <<phase, cell, campaignVars>>
    BY <1>2 DEF vars, obsVars
  <2>3. RunInv'
    BY <2>2, StageKeepsInv DEF campaignVars, RunInv, ScheduleIsKept, ReportIsOfTheReceipts
  <2> QED BY <2>1, <2>3
<1> QED BY <1>1, <1>2, ObserveStep, RecordStep, FlushStep, CrashStep, ReportStep
       DEF CampaignNext

\* The invariant of the run and of its observations holds throughout.
THEOREM CampaignInvariance == CampaignSpec => [](ObsInv /\ RunInv)
<1> QED BY InitCampaignInv, NextCampaignInv, PTL DEF CampaignSpec

\* Before an agent is terminated, and after that while its observation goes on,
\* there is nothing on disk of another cell but what an agent writes that has
\* outlived its own (prepareObservationDir, deferred retention, terminate and
\* flushRunEvidence).
THEOREM NothingIsReadable == CampaignSpec => []NothingOfOthersIsReadable
<1>1. ObsInv => NothingOfOthersIsReadable
  <2> SUFFICES ASSUME ObsInv, Attended PROVE DiskIsOwn
    BY DEF NothingOfOthersIsReadable, DiskIsOwn
  <2>1. phase \notin {"idle", "thrown"}
    BY DEF Attended, ObsInv, AgentIsAlone, Acting
  <2> QED BY <2>1 DEF ObsInv, AgentIsAlone
<1> QED BY <1>1, CampaignInvariance, PTL

\* Between two observations no tree is marked: an observation that returns has
\* removed its own, and agents that live on leave workspaces only.
NothingIsMarked == phase \in {"idle", "ended"} => \A p \in disk : p[2] # "marker"

LEMMA TreesStay ==
    ASSUME Runs \/ Agents \/ TimePasses, ~(Remove \/ Linger)
    PROVE  UNCHANGED disk /\ (phase' \in {"idle", "ended"} => UNCHANGED phase)
<1>1. ASSUME Start \/ Expire \/ GraceEnds \/ Watched \/ Conclude
      PROVE  UNCHANGED disk /\ phase' \notin {"idle", "ended"}
  BY <1>1 DEF Start, Expire, GraceEnds, Watched, Conclude, Goes, Fails
<1>2. ASSUME Terminate \/ Handshake \/ Close
      PROVE  UNCHANGED disk /\ phase' \notin {"idle", "ended"}
  BY <1>2 DEF Terminate, Handshake, Close, Goes, Fails
<1>3. ASSUME Seek \/ Complete \/ BeginLog \/ Work \/ TimePasses PROVE UNCHANGED <<disk, phase>>
  BY <1>3 DEF Seek, Complete, BeginLog, Work, TimePasses
<1>4. ASSUME Poll PROVE UNCHANGED <<disk, phase>>
  BY <1>4 DEF Poll
<1>5. ASSUME Answer
      PROVE  UNCHANGED disk /\ (phase' \notin {"idle", "ended"} \/ UNCHANGED phase)
  BY <1>5 DEF Answer, Goes, Fails
<1>6. ASSUME Exit
      PROVE  UNCHANGED disk /\ (phase' \notin {"idle", "ended"} \/ UNCHANGED phase)
  <2>1. UNCHANGED disk /\ Rejected
    BY <1>6 DEF Exit
  <2>2. CASE phase \in {"handshake", "prompting", "grace", "closing"}
    BY <2>1, <2>2 DEF Rejected, Goes, Fails
  <2>3. CASE phase \notin {"handshake", "prompting", "grace", "closing"}
    BY <2>1, <2>3 DEF Rejected
  <2> QED BY <2>1, <2>2, <2>3
<1> QED BY <1>1, <1>2, <1>3, <1>4, <1>5, <1>6 DEF Runs, Agents

LEMMA UnmarkedStep ==
    ASSUME NothingIsMarked, [CampaignNext]_vars
    PROVE  NothingIsMarked'
<1> SUFFICES ASSUME phase' \in {"idle", "ended"}, NEW p \in disk' PROVE p[2] # "marker"
  BY DEF NothingIsMarked
<1>1. CASE Remove
  BY <1>1 DEF Remove, Goes
<1>2. CASE Linger
  BY <1>2 DEF Linger, NothingIsMarked
<1>3. CASE Flush
  <2>1. \/ p \in disk \/ p = <<"run", "ledger">>
        \/ \E i \in DOMAIN retained : p = <<retained[i].cell, "receipt">>
    BY <1>3 DEF Flush
  <2>2. phase' = phase
    BY <1>3 DEF Flush
  <2> QED BY <2>1, <2>2 DEF NothingIsMarked
<1>4. CASE Observe
  <2>1. ASSUME NEW c, Prepare(c) PROVE FALSE
    BY <2>1 DEF Prepare, Goes
  <2>2. CASE UNCHANGED obsVars
    <3>1. UNCHANGED <<phase, disk>>
      BY <2>2 DEF obsVars
    <3> QED BY <3>1 DEF NothingIsMarked
  <2> QED BY <1>4, <2>1, <2>2 DEF Observe
<1>5. CASE Record
  BY <1>5 DEF Record, Return, Forgets, NothingIsMarked
<1>6. CASE Crash
  BY <1>6 DEF Crash
<1>7. CASE Report \/ Finalize \/ UNCHANGED vars
  BY <1>7 DEF Report, Finalize, vars, obsVars, NothingIsMarked
<1>8. CASE Runs \/ Agents \/ TimePasses
  <2>1. CASE Remove \/ Linger
    BY <1>1, <1>2, <2>1
  <2>2. CASE ~(Remove \/ Linger)
    BY <1>8, <2>2, TreesStay DEF NothingIsMarked
  <2> QED BY <2>1, <2>2
<1> QED BY <1>1, <1>2, <1>3, <1>4, <1>5, <1>6, <1>7, <1>8 DEF CampaignNext

\* What is removed is marked, of the observation under way, and judged
\* (createOwnedTree, removeOwnedTree and the order of runObservation).
THEOREM UnownedTreesStay == CampaignSpec => OnlyOwnedTreesAreRemoved
<1> DEFINE Kept == disk \subseteq disk' \/ OwnTreeIsJudged
<1>1. CampaignInit => NothingIsMarked
  BY DEF CampaignInit, ObsInit, NothingIsMarked
<1>2. ASSUME ObsInv, NothingIsMarked, [CampaignNext]_vars PROVE Kept
  <2>1. ASSUME NEW c, Prepare(c) PROVE Kept
    BY <1>2, <2>1 DEF Prepare, Owned, NothingIsMarked
  <2>2. ASSUME Remove PROVE Kept
    BY <1>2, <2>2 DEF Remove, ObsInv, ReceiptIsTold, OwnTreeIsJudged
  <2>3. ASSUME Flush \/ Linger PROVE Kept
    BY <2>3 DEF Flush, Linger
  <2>4. ASSUME Runs \/ Agents \/ TimePasses PROVE Kept
    <3>1. CASE Remove \/ Linger
      BY <2>2, <2>3, <3>1
    <3>2. CASE ~(Remove \/ Linger)
      BY <2>4, <3>2, TreesStay
    <3> QED BY <3>1, <3>2
  <2>5. ASSUME Observe \/ Record \/ Crash \/ Report \/ Finalize PROVE Kept
    BY <2>1, <2>5 DEF Observe, Record, Return, Crash, Forgets, Report, Finalize, obsVars
  <2>6. ASSUME UNCHANGED vars PROVE Kept
    BY <2>6 DEF vars, obsVars
  <2> QED BY <1>2, <2>3, <2>4, <2>5, <2>6 DEF CampaignNext
<1> QED BY <1>1, <1>2, UnmarkedStep, CampaignInvariance, PTL
       DEF CampaignSpec, OnlyOwnedTreesAreRemoved

\* Every receipt is true of what the agent and its log did, whatever the
\* watchdog counted and whenever the time ran out (runObservation from the
\* prompt to classifyTerminal).
THEOREM ReceiptsStayTrue == CampaignSpec => []ReceiptsAreTrue
<1>1. RunInv => ReceiptsAreTrue
  BY DEF RunInv, ScheduleIsKept, ReceiptsAreTrue, Told
<1> QED BY <1>1, CampaignInvariance, PTL

\* A verdict, and what is published, is of a whole measurement with the frozen
\* model (buildH2Report, commandRun and commandFinalize).
THEOREM MeasurementsAreWhole == CampaignSpec => []MeasurementIsWhole
<1>1. RunInv => MeasurementIsWhole
  <2> SUFFICES ASSUME RunInv PROVE MeasurementIsWhole
    OBVIOUS
  <2>1. ASSUME report # <<>>, report[1].status # "STOPPED_INVALID"
        PROVE  /\ stage = "ended" /\ stopReason = "none" /\ Len(truth) = Len(Schedule)
               /\ \A i \in DOMAIN truth : truth[i].models = "frozen"
    <3>1. /\ Len(retained) = Len(Schedule)
          /\ \A i \in DOMAIN retained : ResolvedReceipt(retained[i])
      BY <2>1 DEF RunInv, ReportIsOfTheReceipts, ReportOf
    <3>2. Len(retained) \in Nat /\ DOMAIN truth = DOMAIN retained
      BY DEF RunInv, ScheduleIsKept
    <3>3. \A i \in DOMAIN truth : truth[i].models = "frozen"
      BY <3>1, <3>2 DEF RunInv, ScheduleIsKept, Told
    <3>4. stage = "ended"
      BY <2>1, <3>1, <3>2 DEF RunInv, ReportIsOfTheReceipts, ScheduleIsKept
    <3>5. stopReason = "none"
      BY <3>1, <3>2 DEF RunInv, StopIsSeen
    <3> QED BY <3>1, <3>3, <3>4, <3>5 DEF RunInv, ScheduleIsKept
  <2>2. published => report # <<>> /\ report[1].status # "STOPPED_INVALID"
    BY DEF RunInv, ReportIsOfTheReceipts, Publishable
  <2> QED BY <2>1, <2>2 DEF MeasurementIsWhole, RunInv, StopIsSeen
<1> QED BY <1>1, CampaignInvariance, PTL

-----------------------------------------------------------------------------
(***************************************************************************)
(* The exact test.  Pascal's rule counts the ways to toss coins: the       *)
(* integers of exactOneSidedMcNemarP are numbers of sets.                  *)
(***************************************************************************)
\* Induction over numbers, from the least counterexample.
LEMMA AllNumbers ==
    ASSUME NEW S, 0 \in S, \A n \in Nat : n \in S => n + 1 \in S
    PROVE  \A n \in Nat : n \in S
<1> DEFINE others == {n \in Nat : n \notin S}
<1>1. SUFFICES ASSUME others # {} PROVE FALSE
  OBVIOUS
<1>2. PICK n \in others : \A m \in others : ~(<<m, n>> \in OpToRel(<, Nat))
  BY <1>1, NatLessThanWellFounded, WFMin
<1>3. \A m \in others : ~(m < n)
  BY <1>2 DEF OpToRel
<1>4. n # 0 /\ n - 1 \in Nat /\ n - 1 \notin others
  BY <1>3
<1> QED BY <1>4

\* The tosses of n coins that win as often as k.
Tosses(n, k) == {S \in SUBSET (1..n) : Cardinality(S) = k}
TossesOfAtLeast(n, k) == {S \in SUBSET (1..n) : Cardinality(S) >= k}

LEMMA TossesAreFinite ==
    ASSUME NEW n \in Nat
    PROVE  /\ IsFiniteSet(1..n) /\ Cardinality(1..n) = n
           /\ \A S \in SUBSET (1..n) : IsFiniteSet(S) /\ Cardinality(S) \in 0..n
           /\ \A k : IsFiniteSet(Tosses(n, k)) /\ IsFiniteSet(TossesOfAtLeast(n, k))
<1>1. IsFiniteSet(1..n) /\ Cardinality(1..n) = n
  BY FS_Interval
<1>2. ASSUME NEW S \in SUBSET (1..n)
      PROVE  IsFiniteSet(S) /\ Cardinality(S) \in 0..n
  <2>1. IsFiniteSet(S) /\ Cardinality(S) <= Cardinality(1..n)
    BY <1>1, FS_Subset
  <2>2. Cardinality(S) \in Nat
    BY <2>1, FS_CardinalityType
  <2> QED BY <1>1, <2>1, <2>2
<1>3. IsFiniteSet(SUBSET (1..n))
  BY <1>1, FS_SUBSET
<1>4. \A k : Tosses(n, k) \in SUBSET SUBSET (1..n) /\ TossesOfAtLeast(n, k) \in SUBSET SUBSET (1..n)
  BY DEF Tosses, TossesOfAtLeast
<1> QED BY <1>1, <1>2, <1>3, <1>4, FS_Subset

LEMMA NoWins == ASSUME NEW n \in Nat PROVE Cardinality(Tosses(n, 0)) = 1
<1>1. Tosses(n, 0) = {{}}
  <2>1. \A S \in SUBSET (1..n) : Cardinality(S) = 0 <=> S = {}
    BY TossesAreFinite, FS_EmptySet
  <2> QED BY <2>1 DEF Tosses
<1> QED BY <1>1, FS_Singleton

LEMMA NoCoins == ASSUME NEW k \in Nat \ {0} PROVE Cardinality(Tosses(0, k)) = 0
<1>1. Tosses(0, k) = {}
  <2>1. SUBSET (1..0) = {{}}
    OBVIOUS
  <2>2. \A S \in SUBSET (1..0) : Cardinality(S) # k
    BY <2>1, FS_EmptySet
  <2> QED BY <2>2 DEF Tosses
<1> QED BY <1>1, FS_EmptySet

\* The last coin is lost or won.
LEMMA PascalsRule ==
    ASSUME NEW n \in Nat, NEW k \in Nat
    PROVE  Cardinality(Tosses(n + 1, k + 1)) =
               Cardinality(Tosses(n, k)) + Cardinality(Tosses(n, k + 1))
<1> DEFINE old == Tosses(n, k)
           lost == Tosses(n, k + 1)
           win == [S \in old |-> S \cup {n + 1}]
           won == {S \cup {n + 1} : S \in old}
<1>1. IsFiniteSet(old) /\ IsFiniteSet(lost)
  BY TossesAreFinite
<1>2. ASSUME NEW S \in old
      PROVE  S \in SUBSET (1..n) /\ n + 1 \notin S /\ IsFiniteSet(S) /\ Cardinality(S) = k
  <2>1. S \in SUBSET (1..n) /\ Cardinality(S) = k
    BY DEF Tosses
  <2>2. n + 1 \notin S
    BY <2>1
  <2> QED BY <2>1, <2>2, TossesAreFinite
<1>3. win \in Bijection(old, won)
  <2>1. \A S \in old : S = (S \cup {n + 1}) \ {n + 1}
    BY <1>2
  <2>2. \A S, T \in old : S \cup {n + 1} = T \cup {n + 1} => S = T
    BY <2>1, Zenon
  <2> HIDE DEF old
  <2> QED BY <2>2 DEF Bijection, Injection, Surjection, IsInjective
<1>4. IsFiniteSet(won) /\ Cardinality(won) = Cardinality(old)
  BY <1>1, <1>3, FS_Bijection DEF ExistsBijection
<1>5. lost \cap won = {}
  BY DEF Tosses
<1>6. Tosses(n + 1, k + 1) = lost \cup won
  <2>1. ASSUME NEW S \in Tosses(n + 1, k + 1)
        PROVE  S \in lost \cup won
    <3>1. S \in SUBSET (1..(n + 1)) /\ IsFiniteSet(S) /\ Cardinality(S) = k + 1
      <4>1. S \in SUBSET (1..(n + 1)) /\ Cardinality(S) = k + 1
        BY DEF Tosses
      <4>2. n + 1 \in Nat
        OBVIOUS
      <4> QED BY <4>1, <4>2, TossesAreFinite
    <3>2. CASE n + 1 \notin S
      BY <3>1, <3>2 DEF Tosses
    <3>3. CASE n + 1 \in S
      <4> DEFINE rest == S \ {n + 1}
      <4>1. rest \in SUBSET (1..n) /\ S = rest \cup {n + 1}
        BY <3>1, <3>3
      <4>2. Cardinality(rest) = k
        BY <3>1, <3>3, FS_RemoveElement
      <4>3. rest \in old
        BY <4>1, <4>2 DEF Tosses
      <4> QED BY <4>1, <4>3
    <3> QED BY <3>2, <3>3
  <2>2. ASSUME NEW S \in old
        PROVE  S \cup {n + 1} \in Tosses(n + 1, k + 1)
    <3>1. Cardinality(S \cup {n + 1}) = k + 1
      BY <1>2, FS_AddElement
    <3>2. S \cup {n + 1} \in SUBSET (1..(n + 1))
      BY <1>2
    <3> QED BY <3>1, <3>2 DEF Tosses
  <2>3. lost \subseteq Tosses(n + 1, k + 1)
    BY DEF Tosses
  <2> HIDE DEF old, lost
  <2> QED BY <2>1, <2>2, <2>3
<1> HIDE DEF old, lost, won, win
<1>7. Cardinality(lost \cup won) = Cardinality(lost) + Cardinality(won)
  <2>1. Cardinality(lost) \in Nat /\ Cardinality(won) \in Nat
    BY <1>1, <1>4, FS_CardinalityType
  <2>2. Cardinality(lost \cap won) = 0
    BY <1>5, FS_EmptySet
  <2>3. Cardinality(lost \cup won) = Cardinality(lost) + Cardinality(won) - Cardinality(lost \cap won)
    BY <1>1, <1>4, FS_Union
  <2> QED BY <2>1, <2>2, <2>3
<1>8. Cardinality(old) \in Nat /\ Cardinality(lost) \in Nat
  BY <1>1, FS_CardinalityType
<1>9. Cardinality(Tosses(n + 1, k + 1)) = Cardinality(old) + Cardinality(lost)
  <2>1. Cardinality(Tosses(n + 1, k + 1)) = Cardinality(lost) + Cardinality(won)
    BY <1>6, <1>7, Zenon
  <2> QED BY <1>4, <1>8, <2>1
<1> QED BY <1>9 DEF old, lost

\* The rows of Pascal's triangle, as Choose builds them.
IsTriangle(row, n) ==
    row = [i \in 0..n |-> [j \in 0..n |->
              IF j = 0 THEN 1 ELSE IF i = 0 THEN 0 ELSE row[i - 1][j - 1] + row[i - 1][j]]]

LEMMA TriangleExists ==
    ASSUME NEW n \in Nat
    PROVE  \E row : IsTriangle(row, n)
<1> DEFINE row == [i \in 0..n |-> [j \in 0..n |-> Cardinality(Tosses(i, j))]]
<1>1. ASSUME NEW i \in 0..n, NEW j \in 0..n
      PROVE  Cardinality(Tosses(i, j)) =
                 IF j = 0 THEN 1 ELSE IF i = 0 THEN 0 ELSE row[i - 1][j - 1] + row[i - 1][j]
  <2>1. CASE j = 0
    BY <2>1, NoWins
  <2>2. CASE j # 0 /\ i = 0
    BY <2>2, NoCoins
  <2>3. CASE j # 0 /\ i # 0
    <3>1. i - 1 \in 0..n /\ j - 1 \in 0..n /\ i - 1 \in Nat /\ j - 1 \in Nat
          /\ (i - 1) + 1 = i /\ (j - 1) + 1 = j
      BY <2>3
    <3>2. row[i - 1][j - 1] = Cardinality(Tosses(i - 1, j - 1)) /\ row[i - 1][j] = Cardinality(Tosses(i - 1, j))
      BY <3>1
    <3>3. Cardinality(Tosses((i - 1) + 1, (j - 1) + 1)) =
              Cardinality(Tosses(i - 1, j - 1)) + Cardinality(Tosses(i - 1, (j - 1) + 1))
      BY <3>1, PascalsRule
    <3> HIDE DEF row
    <3> QED BY <2>3, <3>1, <3>2, <3>3
  <2> QED BY <2>1, <2>2, <2>3
<1>2. row = [i \in 0..n |-> [j \in 0..n |->
                IF j = 0 THEN 1 ELSE IF i = 0 THEN 0 ELSE row[i - 1][j - 1] + row[i - 1][j]]]
  BY <1>1, Zenon
<1> HIDE DEF row
<1>3. IsTriangle(row, n)
  BY <1>2 DEF IsTriangle
<1> QED BY <1>3

LEMMA TriangleCounts ==
    ASSUME NEW n \in Nat, NEW row, IsTriangle(row, n)
    PROVE  \A i \in 0..n : \A j \in 0..n : row[i][j] = Cardinality(Tosses(i, j))
<1> DEFINE S == {i \in Nat : i <= n => \A j \in 0..n : row[i][j] = Cardinality(Tosses(i, j))}
<1>1. \A i \in 0..n : \A j \in 0..n :
          row[i][j] = IF j = 0 THEN 1 ELSE IF i = 0 THEN 0 ELSE row[i - 1][j - 1] + row[i - 1][j]
  <2> TAKE i \in 0..n
  <2>1. row[i] = [j \in 0..n |->
                     IF j = 0 THEN 1 ELSE IF i = 0 THEN 0 ELSE row[i - 1][j - 1] + row[i - 1][j]]
    BY DEF IsTriangle
  <2> QED BY <2>1
<1>2. 0 \in S
  <2>1. 0 \in 0..n
    OBVIOUS
  <2>2. \A j \in 0..n : row[0][j] = IF j = 0 THEN 1 ELSE 0
    BY <1>1, <2>1
  <2>3. Cardinality(Tosses(0, 0)) = 1 /\ \A j \in Nat \ {0} : Cardinality(Tosses(0, j)) = 0
    BY NoWins, NoCoins
  <2> QED BY <2>2, <2>3
<1>3. ASSUME NEW i \in Nat, i \in S
      PROVE  i + 1 \in S
  <2> SUFFICES ASSUME i + 1 <= n, NEW j \in 0..n
               PROVE  row[i + 1][j] = Cardinality(Tosses(i + 1, j))
    OBVIOUS
  <2>1. i + 1 \in 0..n /\ i + 1 # 0 /\ (i + 1) - 1 = i
    OBVIOUS
  <2>2. row[i + 1][j] = IF j = 0 THEN 1 ELSE row[i][j - 1] + row[i][j]
    <3>1. row[i + 1][j] = IF j = 0 THEN 1 ELSE IF i + 1 = 0 THEN 0
                          ELSE row[(i + 1) - 1][j - 1] + row[(i + 1) - 1][j]
      BY <1>1, <2>1
    <3> QED BY <3>1, <2>1
  <2>3. CASE j = 0
    BY <2>2, <2>3, NoWins
  <2>4. CASE j # 0
    <3>1. j - 1 \in 0..n /\ j - 1 \in Nat /\ (j - 1) + 1 = j
      BY <2>4
    <3>2. row[i][j - 1] = Cardinality(Tosses(i, j - 1)) /\ row[i][j] = Cardinality(Tosses(i, j))
      BY <1>3, <3>1
    <3>3. Cardinality(Tosses(i + 1, (j - 1) + 1)) =
              Cardinality(Tosses(i, j - 1)) + Cardinality(Tosses(i, (j - 1) + 1))
      BY <3>1, PascalsRule
    <3> HIDE DEF S
    <3> QED BY <2>2, <2>4, <3>1, <3>2, <3>3
  <2> QED BY <2>3, <2>4
<1> HIDE DEF S
<1>4. \A i \in Nat : i \in S
  BY <1>2, <1>3, AllNumbers
<1> QED BY <1>4 DEF S

LEMMA ChooseCounts ==
    ASSUME NEW n \in Nat, NEW k \in 0..n
    PROVE  Choose(n, k) = Cardinality(Tosses(n, k))
<1> DEFINE body(row) == [i \in 0..n |-> [j \in 0..n |->
                IF j = 0 THEN 1 ELSE IF i = 0 THEN 0 ELSE row[i - 1][j - 1] + row[i - 1][j]]]
           row == CHOOSE r : r = body(r)
<1>1. \E r : r = body(r)
  BY TriangleExists DEF IsTriangle
<1>2. row = body(row)
  BY <1>1
<1>3. Choose(n, k) = row[n][k]
  BY DEF Choose
<1> HIDE DEF row
<1>4. IsTriangle(row, n)
  BY <1>2 DEF IsTriangle
<1> QED BY <1>3, <1>4, TriangleCounts

\* The tail is a sum of such numbers, from the top.
IsTail(above, n, k) ==
    above = [j \in k..(n + 1) |-> IF j > n THEN 0 ELSE Choose(n, j) + above[j + 1]]

LEMMA TailsRule ==
    ASSUME NEW n \in Nat, NEW j \in 0..n
    PROVE  Cardinality(TossesOfAtLeast(n, j)) =
               Choose(n, j) + Cardinality(TossesOfAtLeast(n, j + 1))
<1> DEFINE exactly == Tosses(n, j)
           more == TossesOfAtLeast(n, j + 1)
<1>1. IsFiniteSet(exactly) /\ IsFiniteSet(more)
  BY TossesAreFinite
<1>2. \A S \in SUBSET (1..n) : Cardinality(S) \in 0..n
  BY TossesAreFinite
<1>3. TossesOfAtLeast(n, j) = exactly \cup more /\ exactly \cap more = {}
  BY <1>2 DEF Tosses, TossesOfAtLeast
<1>4. Choose(n, j) = Cardinality(exactly)
  BY ChooseCounts
<1> HIDE DEF exactly, more
<1>5. Cardinality(exactly \cup more) = Cardinality(exactly) + Cardinality(more) - Cardinality(exactly \cap more)
  BY <1>1, FS_Union
<1>6. Cardinality(exactly) \in Nat /\ Cardinality(more) \in Nat
  BY <1>1, FS_CardinalityType
<1>7. Cardinality(exactly \cap more) = 0
  BY <1>3, FS_EmptySet
<1>8. Cardinality(TossesOfAtLeast(n, j)) = Choose(n, j) + Cardinality(more)
  BY <1>3, <1>4, <1>5, <1>6, <1>7
<1> QED BY <1>8 DEF more

LEMMA NobodyWinsMore == ASSUME NEW n \in Nat PROVE Cardinality(TossesOfAtLeast(n, n + 1)) = 0
<1>1. TossesOfAtLeast(n, n + 1) = {}
  <2>1. \A S \in SUBSET (1..n) : Cardinality(S) \in 0..n
    BY TossesAreFinite
  <2>2. \A S \in SUBSET (1..n) : ~(Cardinality(S) >= n + 1)
    BY <2>1
  <2> QED BY <2>2 DEF TossesOfAtLeast
<1> QED BY <1>1, FS_EmptySet

LEMMA TailExists ==
    ASSUME NEW n \in Nat, NEW k \in 0..(n + 1)
    PROVE  \E above : IsTail(above, n, k)
<1> DEFINE above == [j \in k..(n + 1) |-> Cardinality(TossesOfAtLeast(n, j))]
<1>1. ASSUME NEW j \in k..(n + 1)
      PROVE  Cardinality(TossesOfAtLeast(n, j)) = IF j > n THEN 0 ELSE Choose(n, j) + above[j + 1]
  <2>1. CASE j > n
    <3>1. j = n + 1
      BY <2>1
    <3> QED BY <2>1, <3>1, NobodyWinsMore
  <2>2. CASE ~(j > n)
    <3>1. j \in 0..n /\ j + 1 \in k..(n + 1)
      BY <2>2
    <3>2. above[j + 1] = Cardinality(TossesOfAtLeast(n, j + 1))
      BY <3>1
    <3> HIDE DEF above
    <3> QED BY <2>2, <3>1, <3>2, TailsRule
  <2> QED BY <2>1, <2>2
<1>2. above = [j \in k..(n + 1) |-> IF j > n THEN 0 ELSE Choose(n, j) + above[j + 1]]
  BY <1>1, Zenon
<1> HIDE DEF above
<1>3. IsTail(above, n, k)
  BY <1>2 DEF IsTail
<1> QED BY <1>3

LEMMA TailCounts ==
    ASSUME NEW n \in Nat, NEW k \in 0..(n + 1), NEW above, IsTail(above, n, k)
    PROVE  \A j \in k..(n + 1) : above[j] = Cardinality(TossesOfAtLeast(n, j))
<1> DEFINE S == {d \in Nat : \A j \in k..(n + 1) :
                     j + d = n + 1 => above[j] = Cardinality(TossesOfAtLeast(n, j))}
<1>1. \A j \in k..(n + 1) : above[j] = IF j > n THEN 0 ELSE Choose(n, j) + above[j + 1]
  BY DEF IsTail
<1>2. 0 \in S
  <2>1. n + 1 \in k..(n + 1)
    OBVIOUS
  <2>2. above[n + 1] = 0
    BY <1>1, <2>1
  <2>3. \A j \in k..(n + 1) : j + 0 = n + 1 => j = n + 1
    OBVIOUS
  <2> QED BY <2>2, <2>3, NobodyWinsMore
<1>3. ASSUME NEW d \in Nat, d \in S
      PROVE  d + 1 \in S
  <2> SUFFICES ASSUME NEW j \in k..(n + 1), j + (d + 1) = n + 1
               PROVE  above[j] = Cardinality(TossesOfAtLeast(n, j))
    OBVIOUS
  <2>1. j \in 0..n /\ j + 1 \in k..(n + 1) /\ (j + 1) + d = n + 1 /\ ~(j > n)
    OBVIOUS
  <2>2. above[j + 1] = Cardinality(TossesOfAtLeast(n, j + 1))
    BY <1>3, <2>1
  <2> HIDE DEF S
  <2> QED BY <1>1, <2>1, <2>2, TailsRule
<1> HIDE DEF S
<1>4. \A d \in Nat : d \in S
  BY <1>2, <1>3, AllNumbers
<1>5. ASSUME NEW j \in k..(n + 1)
      PROVE  above[j] = Cardinality(TossesOfAtLeast(n, j))
  <2>1. (n + 1) - j \in S /\ j + ((n + 1) - j) = n + 1
    BY <1>4
  <2> QED BY <2>1 DEF S
<1> QED BY <1>5

LEMMA UpperTailCounts ==
    ASSUME NEW n \in Nat, NEW k \in 0..(n + 1)
    PROVE  UpperTail(n, k) = Cardinality(TossesOfAtLeast(n, k))
<1> DEFINE body(above) == [j \in k..(n + 1) |-> IF j > n THEN 0 ELSE Choose(n, j) + above[j + 1]]
           above == CHOOSE a : a = body(a)
<1>1. \E a : a = body(a)
  BY TailExists DEF IsTail
<1>2. above = body(above)
  BY <1>1
<1>3. UpperTail(n, k) = above[k]
  BY DEF UpperTail
<1> HIDE DEF above
<1>4. IsTail(above, n, k)
  BY <1>2 DEF IsTail
<1> QED BY <1>3, <1>4, TailCounts

\* The exact test decides as counting the tosses would.
LEMMA DecisionIsExact ==
    ASSUME NEW c \in Nat, NEW b \in Nat
    PROVE  /\ Decision(c, b) # "STOPPED_INVALID"
           /\ Decision(c, b) = "CONFIRMED_BENEFIT" <=>
                  c >= b + 2 /\ 20 * Cardinality(CoinsAsGood(c, b)) <= 2 ^ (c + b)
<1>1. CoinsAsGood(c, b) = TossesOfAtLeast(c + b, c)
  BY DEF CoinsAsGood, TossesOfAtLeast
<1>2. UpperTail(c + b, c) = Cardinality(CoinsAsGood(c, b))
  <2>1. c + b \in Nat /\ c \in 0..((c + b) + 1)
    OBVIOUS
  <2> QED BY <1>1, <2>1, UpperTailCounts
<1>3. Significant(c, b) <=> 20 * Cardinality(CoinsAsGood(c, b)) <= 2 ^ (c + b)
  BY <1>2 DEF Significant
<1> QED BY <1>3 DEF Decision, MinimumDiscordantWins

\* The earlier tasks stay what they were.
LEMMA TableIsGiven == CampaignSpec => [](table \in Tables)
<1>1. CampaignInit => table \in Tables
  BY DEF CampaignInit
<1>2. table \in Tables /\ [CampaignNext]_vars => (table \in Tables)'
  BY DEF CampaignNext, vars, campaignVars, Observe, Record, Flush, Crash, Report, Finalize
<1> QED BY <1>1, <1>2, PTL DEF CampaignSpec

\* A benefit is confirmed exactly when counting all tosses of a coin says so,
\* for any number of tasks (buildH2Report and exactOneSidedMcNemarP).
THEOREM BenefitsAreSignificant == CampaignSpec => []BenefitIsSignificant
<1>1. RunInv /\ table \in Tables => BenefitIsSignificant
  <2> SUFFICES ASSUME RunInv, table \in Tables, report # <<>>, report[1].status # "STOPPED_INVALID"
               PROVE  BenefitIsSignificant
    BY DEF BenefitIsSignificant
  <2> DEFINE solves(arm) == \E i \in DOMAIN retained : retained[i].cell = arm /\ retained[i].success
             c == table.cOnly + IF solves("C") /\ ~solves("B") THEN 1 ELSE 0
             b == table.bOnly + IF solves("B") /\ ~solves("C") THEN 1 ELSE 0
  <2>1. report[1] = ReportOf(retained)
    BY DEF RunInv, ReportIsOfTheReceipts
  <2>2. report[1].status = Decision(c, b)
    BY <2>1 DEF ReportOf
  <2>3. c \in Nat /\ b \in Nat
    <3>1. table.cOnly \in Nat /\ table.bOnly \in Nat
      BY TablesAssumption
    <3> QED BY <3>1
  <2> HIDE DEF solves
  <2>4. BenefitIsSignificant <=> (report[1].status = "CONFIRMED_BENEFIT" <=>
                c >= b + 2 /\ 20 * Cardinality(CoinsAsGood(c, b)) <= 2 ^ (c + b))
    BY DEF BenefitIsSignificant, solves
  <2> HIDE DEF c, b
  <2> QED BY <2>2, <2>3, <2>4, DecisionIsExact
<1> QED BY <1>1, CampaignInvariance, TableIsGiven, PTL

\* What a report claims was earned, from the receipts to the verdict.
THEOREM ReportsAreEarned == CampaignSpec => []ReportIsEarned
<1> QED BY ReceiptsStayTrue, MeasurementsAreWhole, BenefitsAreSignificant, PTL DEF ReportIsEarned
=============================================================================
