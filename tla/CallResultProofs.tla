--------------------------- MODULE CallResultProofs -------------------------
(***************************************************************************)
(* Theorems about CallResult for every set of calls, every capacity of the *)
(* command channel, every set of refusing statuses and every result a      *)
(* session may end with: the result recorded for a call is supported by    *)
(* what happened on its SIP leg.                                           *)
(*                                                                         *)
(* Neither property is inductive.  What run_call of the engine records it  *)
(* reads from an event that the task of the SIP thread queued earlier, so  *)
(* the invariant says what a queued event still means when it is read; and *)
(* that a refusal stays true needs that the task which refused is dead for *)
(* good, hence that no command can start it a second time.                 *)
(***************************************************************************)
EXTENDS CallResult, SequenceTheorems, TLAPS

Refusals == {"busy", "rejected", "not_found", "unavailable"}

Event == [kind : {"answered", "terminated"}, reason : Reasons \cup {None}]

Recorded == [as : Dispositions, cancelled : BOOLEAN, amd : AmdVerdicts, shape : CallShape]

LegTypes ==
    /\ cmds \in Seq(Calls \cup {ShutdownCmd})
    /\ task \in [Calls -> LiveStages \cup {"none", "dead"}]
    /\ reply \in [Calls -> Errors \cup {"none", "pending", "handle", "taken", "unwanted"}]
    /\ events \in [Calls -> Seq(Event)]
    /\ picked \in [Calls -> BOOLEAN]

ResultTypes ==
    /\ stage \in [Calls -> Stages]
    /\ result \in [Calls -> SUBSET Recorded]

(* A command is sent once for a call, and served once.                     *)
Waiting(c) == \E i \in 1..Len(cmds) : cmds[i] = c

DialledOnce ==
    /\ \A c \in Calls : Waiting(c) => task[c] = "none"
    /\ \A i, j \in 1..Len(cmds) : cmds[i] = cmds[j] /\ cmds[i] # ShutdownCmd => i = j
    /\ \A c \in Calls : reply[c] = "none" => task[c] = "none" /\ ~Waiting(c)

(* The callee picks up while the task rings, and the events come after.    *)
PickUpInOrder ==
    \A c \in Calls :
        /\ task[c] \in {"none", "making", "ringing"} => ~picked[c]
        /\ task[c] \in {"none", "making", "ringing", "acking", "media"} => events[c] = <<>>
        /\ task[c] \in {"acking", "media", "up", "leaving", "closing"} => picked[c]

(* What an event in the channel still means when it is read.               *)
EventsMean ==
    \A c \in Calls : \A i \in 1..Len(events[c]) :
        /\ events[c][i].kind = "answered" => picked[c]
        /\ events[c][i].kind = "terminated" /\ events[c][i].reason \in Refusals =>
              ~picked[c] /\ task[c] = "dead"

(* Where run_call is, and what it recorded.                                *)
StageMeans ==
    \A c \in Calls :
        /\ stage[c] = "session" => picked[c]
        /\ stage[c] = "requeued" => ~picked[c] /\ task[c] = "dead"

Refused(c) == \E r \in result[c] : r.as \in Refusals

ResultMeans ==
    \A c \in Calls :
        /\ Refused(c) => ~picked[c] /\ task[c] = "dead"
        /\ \A r \in result[c] :
              /\ r.as = Resolve(r.cancelled, r.amd, None, r.shape) \/ ~r.shape.answered
              /\ r.as \in {"completed", "announcement"} => picked[c] /\ r.shape.answered

LegInv == LegTypes /\ DialledOnce /\ PickUpInOrder /\ EventsMean
ResultInv == LegInv /\ ResultTypes /\ StageMeans /\ ResultMeans

-----------------------------------------------------------------------------
(* Sequences. *)
LEMMA AppendElements ==
    ASSUME NEW S, NEW s \in Seq(S), NEW e \in S
    PROVE  /\ Append(s, e) \in Seq(S)
           /\ \A i \in 1..Len(Append(s, e)) :
                 \/ i = Len(s) + 1 /\ Append(s, e)[i] = e
                 \/ i \in 1..Len(s) /\ Append(s, e)[i] = s[i]
<1>1. Append(s, e) \in Seq(S) /\ Len(Append(s, e)) = Len(s) + 1
      /\ \A i \in 1..Len(s) : Append(s, e)[i] = s[i]
      /\ Append(s, e)[Len(s) + 1] = e
    BY AppendProperties
<1>2. Len(s) \in Nat
    BY LenProperties
<1> QED
    BY <1>1, <1>2

LEMMA TailElements ==
    ASSUME NEW S, NEW s \in Seq(S), s # <<>>
    PROVE  /\ Tail(s) \in Seq(S)
           /\ \A i \in 1..Len(Tail(s)) : i + 1 \in 1..Len(s) /\ Tail(s)[i] = s[i + 1]
           /\ 1 \in 1..Len(s) /\ Head(s) = s[1] /\ Head(s) \in S
<1>1. /\ Tail(s) \in Seq(S) /\ Len(Tail(s)) = Len(s) - 1 /\ Len(s) \in Nat
      /\ \A i \in 1..Len(Tail(s)) : Tail(s)[i] = s[i + 1]
      /\ Head(s) = s[1] /\ Head(s) \in S
    BY HeadTailProperties, EmptySeq, LenProperties
<1>2. Len(s) # 0
    BY EmptySeq
<1> QED
    BY <1>1, <1>2

(* The events of a leg are well-formed. *)
LEMMA EventTypes ==
    /\ AnsweredEvent \in Event
    /\ \A reason \in Reasons : Terminated(reason) \in Event
BY DEF AnsweredEvent, Terminated, Event

-----------------------------------------------------------------------------
(* A leg goes on: nobody picks up a dead leg and none comes back to life.  *)
Progress ==
    \A c \in Calls :
        /\ picked[c] => picked'[c]
        /\ task[c] = "dead" => task'[c] = "dead" /\ picked'[c] = picked[c]

LegMeans(c) ==
    /\ task[c] \in {"none", "making", "ringing"} => ~picked[c]
    /\ task[c] \in {"none", "making", "ringing", "acking", "media"} => events[c] = <<>>
    /\ task[c] \in {"acking", "media", "up", "leaving", "closing"} => picked[c]
    /\ \A i \in 1..Len(events[c]) :
          /\ events[c][i].kind = "answered" => picked[c]
          /\ events[c][i].kind = "terminated" /\ events[c][i].reason \in Refusals =>
                ~picked[c] /\ task[c] = "dead"

LEMMA LegMeansIs == PickUpInOrder /\ EventsMean <=> \A c \in Calls : LegMeans(c)
BY DEF PickUpInOrder, EventsMean, LegMeans

(* A step of the task of one call. *)
LEMMA OneLegMoves ==
    ASSUME LegInv, NEW c \in Calls, task[c] \in LiveStages,
           NEW to \in LiveStages \cup {"dead"}, task' = [task EXCEPT ![c] = to],
           cmds' = cmds, LegTypes', LegMeans(c)',
           \A d \in Calls \ {c} : events'[d] = events[d] /\ picked'[d] = picked[d],
           \A d \in Calls : reply'[d] = "none" => reply[d] = "none",
           picked[c] => picked'[c]
    PROVE  LegInv' /\ Progress
<1>1. \A d \in Calls : task'[d] = IF d = c THEN to ELSE task[d]
    BY DEF LegInv, LegTypes
<1>2. DialledOnce'
    BY <1>1 DEF LegInv, DialledOnce, Waiting, LiveStages
<1>3. \A d \in Calls \ {c} : LegMeans(d)'
    BY <1>1, LegMeansIs DEF LegInv, LegMeans
<1>4. PickUpInOrder' /\ EventsMean'
    BY <1>3 DEF PickUpInOrder, EventsMean, LegMeans
<1> QED
    BY <1>1, <1>2, <1>4 DEF LegInv, Progress, LiveStages

(* ... that says nothing. *)
LEMMA LegProceeds ==
    ASSUME LegInv, NEW c \in Calls, task[c] \in LiveStages,
           NEW to \in LiveStages \cup {"dead"}, task' = [task EXCEPT ![c] = to],
           UNCHANGED <<cmds, events, picked>>,
           \/ reply' = reply
           \/ \E r \in Errors \cup {"handle", "unwanted"} : reply' = [reply EXCEPT ![c] = r],
           \/ to = "dead"
           \/ task[c] = "making" /\ to = "ringing"
           \/ task[c] = "acking" /\ to = "media"
           \/ task[c] = "up" /\ to = "leaving"
    PROVE  LegInv' /\ Progress
<1>1. LegTypes'
    BY DEF LegInv, LegTypes, LiveStages
<1>2. LegMeans(c)'
  <2>1. LegMeans(c) /\ task'[c] = to
      BY LegMeansIs DEF LegInv, LegTypes
  <2> QED
      BY <2>1 DEF LegMeans
<1>3. \A d \in Calls : reply'[d] = "none" => reply[d] = "none"
    BY DEF LegInv, LegTypes, Errors
<1> QED
    BY <1>1, <1>2, <1>3, OneLegMoves

LEMMA SaysEvent ==
    ASSUME LegTypes, NEW c \in Calls, NEW e \in Event, Says(c, e)
    PROVE  /\ events' \in [Calls -> Seq(Event)]
           /\ \A d \in Calls \ {c} : events'[d] = events[d]
           /\ \A i \in 1..Len(events'[c]) :
                 \/ events'[c][i] = e
                 \/ i \in 1..Len(events[c]) /\ events'[c][i] = events[c][i]
<1>1. events' = [events EXCEPT ![c] = Append(events[c], e)]
    BY DEF Says
<1>2. events[c] \in Seq(Event)
    BY DEF LegTypes
<1>3. Append(events[c], e) \in Seq(Event)
    BY <1>2, AppendElements
<1>4. events'[c] = Append(events[c], e)
    BY <1>1 DEF LegTypes
<1>5. \A i \in 1..Len(events'[c]) :
          \/ events'[c][i] = e
          \/ i \in 1..Len(events[c]) /\ events'[c][i] = events[c][i]
    BY <1>2, <1>4, AppendElements
<1> QED
    BY <1>1, <1>3, <1>5 DEF LegTypes

(* ... that ends the call: a refusal comes from a ringing phone only.      *)
LEMMA LegEnds ==
    ASSUME LegInv, NEW c \in Calls, task[c] \in LiveStages,
           NEW to \in {"closing", "dead"}, task' = [task EXCEPT ![c] = to],
           NEW reason \in Reasons, Says(c, Terminated(reason)),
           UNCHANGED <<cmds, picked, reply>>,
           reason \in Refusals => task[c] = "ringing",
           task[c] = "ringing" => to = "dead", task[c] # "making"
    PROVE  LegInv' /\ Progress
<1>1. Terminated(reason) \in Event
    BY EventTypes
<1>2. /\ events' \in [Calls -> Seq(Event)]
      /\ \A d \in Calls \ {c} : events'[d] = events[d]
      /\ \A i \in 1..Len(events'[c]) :
            \/ events'[c][i] = Terminated(reason)
            \/ i \in 1..Len(events[c]) /\ events'[c][i] = events[c][i]
    BY <1>1, SaysEvent DEF LegInv
<1>3. to \in LiveStages \cup {"dead"}
    BY DEF LiveStages
<1>4. LegTypes'
    BY <1>2, <1>3 DEF LegInv, LegTypes
<1>5. LegMeans(c)'
  <2>1. LegMeans(c) /\ task'[c] = to
      BY LegMeansIs DEF LegInv, LegTypes
  <2>2. task[c] = "ringing" => ~picked[c] /\ to = "dead"
      BY <2>1 DEF LegMeans
  <2>3. task[c] # "ringing" => picked[c] /\ reason \notin Refusals
      BY <2>1 DEF LegMeans, LiveStages
  <2>4. \A i \in 1..Len(events[c]) :
            /\ events[c][i].kind = "answered" => picked[c]
            /\ ~(events[c][i].kind = "terminated" /\ events[c][i].reason \in Refusals)
    <3>1. task[c] # "dead"
        BY DEF LiveStages
    <3> QED
        BY <2>1, <3>1 DEF LegMeans
  <2>5. Terminated(reason).kind = "terminated" /\ Terminated(reason).reason = reason
      BY DEF Terminated
  <2>6. \A i \in 1..Len(events'[c]) :
            /\ events'[c][i].kind = "answered" => picked[c]
            /\ events'[c][i].kind = "terminated" /\ events'[c][i].reason \in Refusals =>
                  reason \in Refusals
      BY <1>2, <2>4, <2>5
  <2> QED
      BY <2>1, <2>2, <2>3, <2>6 DEF LegMeans
<1> QED
    BY <1>2, <1>3, <1>4, <1>5, OneLegMoves

LEMMA TaskKeepsLeg ==
    ASSUME LegInv, NEW c \in Calls, SipTask(c) \/ SipDrops(c)
    PROVE  LegInv' /\ Progress
<1> USE DEF threadVars, Returns
<1>1. CASE SipMakes(c)
  <2>1. ASSUME NEW error \in {"invite", "not_answered", "media"}, MakeFails(c, error)
        PROVE  LegInv' /\ Progress
    <3>1. \/ reply' = reply
          \/ \E r \in Errors \cup {"handle", "unwanted"} : reply' = [reply EXCEPT ![c] = r]
        BY <2>1 DEF MakeFails, LegInv, LegTypes, Errors
    <3> QED
        BY <2>1, <3>1, LegProceeds DEF MakeFails, LiveStages
  <2>2. CASE Made(c)
      BY <2>2, LegProceeds DEF Made, LiveStages
  <2> QED
      BY <1>1, <2>1, <2>2 DEF SipMakes
<1>2. CASE PicksUp(c)
  <2>1. LegMeans(c) /\ LegTypes /\ task[c] = "ringing"
      BY <1>2, LegMeansIs DEF PicksUp, LegInv
  <2>2. LegTypes' /\ task'[c] = "acking" /\ picked'[c] = TRUE /\ events'[c] = <<>>
      BY <1>2, <2>1 DEF PicksUp, LegTypes, LegMeans, LiveStages
  <2>3. LegMeans(c)'
    <3>1. 1..Len(events'[c]) = {}
        BY <2>2, EmptySeq
    <3> QED
        BY <2>2, <3>1 DEF LegMeans
  <2> QED
      BY <1>2, <2>1, <2>2, <2>3, OneLegMoves DEF PicksUp, LegTypes, LiveStages
<1>3. ASSUME NEW outcome \in CompletionOutcomes, RingFails(c, outcome)
      PROVE  LegInv' /\ Progress
  <2>1. outcome \in Reasons
      BY DEF CompletionOutcomes, OutcomeFromStatus, Reasons, Outcomes
  <2> QED
      BY <1>3, <2>1, LegEnds DEF RingFails, LiveStages
<1>4. CASE Finishes(c) \/ Closed(c) \/ HearsHangup(c)
    BY <1>4, LegProceeds DEF Finishes, Closed, HearsHangup, LiveStages
<1>5. CASE MediaDeadline(c) \/ Leaves(c) \/ Breaks(c) \/ RemoteHangup(c)
    BY <1>5, LegEnds DEF MediaDeadline, Leaves, Breaks, RemoteHangup, LiveStages,
                         Reasons, Outcomes, Refusals
<1>6. ASSUME NEW end \in {"sender", "receiver"}, Negotiates(c, end)
      PROVE  LegInv' /\ Progress
  <2>1. LegMeans(c) /\ LegTypes /\ task[c] = "media" /\ picked[c]
      BY <1>6, LegMeansIs DEF Negotiates, LegInv, LegMeans
  <2>2. CASE UNCHANGED <<task, events>>
    <3>1. LegTypes'
        BY <1>6, <2>1, <2>2 DEF Negotiates, LegTypes
    <3> QED
        BY <1>6, <2>2, <3>1 DEF Negotiates, LegInv, DialledOnce, Waiting, PickUpInOrder,
                                EventsMean, Progress
  <2>3. CASE task' = [task EXCEPT ![c] = "up"] /\ Says(c, AnsweredEvent)
    <3>1. /\ events' \in [Calls -> Seq(Event)]
          /\ \A d \in Calls \ {c} : events'[d] = events[d]
          /\ \A i \in 1..Len(events'[c]) :
                \/ events'[c][i] = AnsweredEvent
                \/ i \in 1..Len(events[c]) /\ events'[c][i] = events[c][i]
        BY <2>1, <2>3, EventTypes, SaysEvent
    <3>2. LegTypes' /\ task'[c] = "up" /\ picked'[c] = picked[c]
        BY <1>6, <2>1, <2>3, <3>1 DEF Negotiates, LegTypes, LiveStages
    <3>3. LegMeans(c)'
        BY <2>1, <3>1, <3>2 DEF LegMeans, AnsweredEvent
    <3> QED
        BY <1>6, <2>1, <2>3, <3>1, <3>2, <3>3, OneLegMoves DEF Negotiates, LiveStages
  <2> QED
      BY <1>6, <2>2, <2>3 DEF Negotiates
<1> QED
    BY <1>1, <1>2, <1>3, <1>4, <1>5, <1>6
       DEF SipTask, SipDrops, SipRings, SipNegotiates, SipLeaves

-----------------------------------------------------------------------------
(* The thread serves a command that was sent once.                         *)
LEMMA ServePlaceKeepsLeg ==
    ASSUME LegInv, ServePlace
    PROVE  LegInv' /\ Progress
<1>1. LegTypes /\ DialledOnce
    BY DEF LegInv
<1>2. PICK c \in Calls : c = Head(cmds) /\ c # ShutdownCmd
    BY <1>1, TailElements DEF LegTypes, ServePlace
<1>3. /\ cmds' = Tail(cmds) /\ cmds # <<>> /\ c # ShutdownCmd
      /\ task' = [task EXCEPT ![c] = "making"]
      /\ UNCHANGED <<reply, events, picked>>
    BY <1>2 DEF ServePlace
<1>4. /\ cmds' \in Seq(Calls \cup {ShutdownCmd})
      /\ \A i \in 1..Len(cmds') : i + 1 \in 1..Len(cmds) /\ cmds'[i] = cmds[i + 1]
      /\ 1 \in 1..Len(cmds) /\ c = cmds[1]
    BY <1>1, <1>2, <1>3, TailElements DEF LegTypes
<1>5. task[c] = "none" /\ reply[c] # "none"
    BY <1>1, <1>4 DEF DialledOnce, Waiting
<1>6. ~Waiting(c)' /\ \A d \in Calls : Waiting(d)' => Waiting(d)
  <2>1. \A i \in 1..Len(cmds') : i \in Int /\ cmds'[i] # c
    <3> SUFFICES ASSUME NEW i \in 1..Len(cmds'), cmds'[i] = c PROVE FALSE
        OBVIOUS
    <3>1. i + 1 \in 1..Len(cmds) /\ cmds[i + 1] = cmds[1] /\ cmds[1] # ShutdownCmd
        BY <1>3, <1>4
    <3>2. i + 1 = 1
        BY <1>1, <1>4, <3>1 DEF DialledOnce
    <3> QED
        BY <3>2
  <2>2. \A d \in Calls, i \in 1..Len(cmds') :
            cmds'[i] = d => i + 1 \in 1..Len(cmds) /\ cmds[i + 1] = d
      BY <1>4
  <2>3. \A d \in Calls : (\E i \in 1..Len(cmds') : cmds'[i] = d) =>
                          \E j \in 1..Len(cmds) : cmds[j] = d
      BY <2>2
  <2> QED
      BY <2>1, <2>3 DEF Waiting
<1>7. \A d \in Calls : task'[d] = IF d = c THEN "making" ELSE task[d]
    BY <1>1, <1>3 DEF LegTypes
<1>8. DialledOnce'
  <2>1. \A i, j \in 1..Len(cmds') : cmds'[i] = cmds'[j] /\ cmds'[i] # ShutdownCmd => i = j
    <3> SUFFICES ASSUME NEW i \in 1..Len(cmds'), NEW j \in 1..Len(cmds'),
                        cmds'[i] = cmds'[j], cmds'[i] # ShutdownCmd
                 PROVE  i = j
        OBVIOUS
    <3>1. i + 1 \in 1..Len(cmds) /\ j + 1 \in 1..Len(cmds)
          /\ cmds[i + 1] = cmds[j + 1] /\ cmds[i + 1] # ShutdownCmd
        BY <1>4
    <3>2. i + 1 = j + 1
        BY <1>1, <3>1 DEF DialledOnce
    <3> QED
        BY <3>2
  <2>2. UNCHANGED reply
      BY <1>3
  <2> QED
      BY <1>1, <2>2, <1>5, <1>6, <1>7, <2>1 DEF DialledOnce
<1>9. LegTypes'
    BY <1>1, <1>3, <1>4 DEF LegTypes, LiveStages
<1>10. \A d \in Calls : LegMeans(d)'
    BY <1>3, <1>5, <1>7, LegMeansIs DEF LegInv, LegMeans
<1> QED
    BY <1>3, <1>5, <1>7, <1>8, <1>9, <1>10
       DEF LegInv, PickUpInOrder, EventsMean, LegMeans, Progress

LEMMA ServeShutdownKeepsLeg ==
    ASSUME LegInv, ServeShutdown
    PROVE  LegInv' /\ Progress
<1>1. /\ cmds' = <<>> /\ UNCHANGED <<events, picked>>
      /\ task' = [c \in Calls |-> IF c \in Live THEN "dead" ELSE task[c]]
      /\ reply' = [c \in Calls |-> IF reply[c] = "pending" THEN "runtime_gone" ELSE reply[c]]
    BY DEF ServeShutdown
<1>2. 1..Len(cmds') = {} /\ cmds' \in Seq(Calls \cup {ShutdownCmd})
    BY <1>1, EmptySeq
<1>3. LegTypes'
    BY <1>1, <1>2 DEF LegInv, LegTypes, Errors
<1>4. DialledOnce'
    BY <1>1, <1>2 DEF LegInv, DialledOnce, Waiting, Live, LiveStages
<1>5. \A c \in Calls : LegMeans(c)'
    BY <1>1, LegMeansIs DEF LegInv, LegMeans, Live, LiveStages
<1> QED
    BY <1>1, <1>3, <1>4, <1>5 DEF LegInv, PickUpInOrder, EventsMean, LegMeans, Progress, Live,
                                 LiveStages

LEMMA IdleKeepsLeg ==
    ASSUME LegInv, UNCHANGED <<cmds, task, events, picked>>, LegTypes',
           \A c \in Calls : reply'[c] = "none" => reply[c] = "none"
    PROVE  LegInv' /\ Progress
BY DEF LegInv, DialledOnce, Waiting, PickUpInOrder, EventsMean, Progress

LEMMA SipKeepsLeg ==
    ASSUME LegInv, SipNext
    PROVE  LegInv' /\ Progress
<1>1. CASE SipStart
    BY <1>1, IdleKeepsLeg
       DEF SipStart, StartFails, Binds, Serves, callVars, LegInv, LegTypes
<1> QED
    BY <1>1, ServePlaceKeepsLeg, ServeShutdownKeepsLeg, TaskKeepsLeg DEF SipNext, SipServe

-----------------------------------------------------------------------------
(* The caller's side of a leg.                                             *)
LEMMA SendKeepsLeg ==
    ASSUME LegInv, NEW cmd \in Calls \cup {ShutdownCmd}, cmds' = Append(cmds, cmd),
           cmd \in Calls => task[cmd] = "none" /\ ~Waiting(cmd),
           UNCHANGED <<task, events, picked>>, LegTypes',
           \A c \in Calls : reply'[c] = "none" => reply[c] = "none" /\ c # cmd
    PROVE  LegInv' /\ Progress
<1>1. LegTypes /\ DialledOnce
    BY DEF LegInv
<1>2. \A i \in 1..Len(cmds') : \/ i = Len(cmds) + 1 /\ cmds'[i] = cmd
                               \/ i \in 1..Len(cmds) /\ cmds'[i] = cmds[i]
    BY <1>1, AppendElements DEF LegTypes
<1>3. DialledOnce'
  <2>1. \A c \in Calls : Waiting(c)' => Waiting(c) \/ c = cmd
      BY <1>2 DEF Waiting
  <2>2. \A i, j \in 1..Len(cmds') : cmds'[i] = cmds'[j] /\ cmds'[i] # ShutdownCmd => i = j
      BY <1>1, <1>2 DEF DialledOnce, Waiting
  <2> QED
      BY <1>1, <2>1, <2>2 DEF DialledOnce
<1> QED
    BY <1>1, <1>3 DEF LegInv, PickUpInOrder, EventsMean, Progress

LEMMA PlaceKeepsLeg ==
    ASSUME LegInv, NEW c \in Calls, Place(c)
    PROVE  LegInv' /\ Progress
<1>1. UNCHANGED <<task, events, picked>> /\ reply[c] = "none"
    BY DEF Place, handleVars
<1>2. CASE cmds' = cmds /\ reply' = [reply EXCEPT ![c] = "runtime_gone"]
  <2>1. LegTypes'
      BY <1>1, <1>2 DEF LegInv, LegTypes, Errors
  <2> QED
      BY <1>1, <1>2, <2>1, IdleKeepsLeg DEF LegInv, LegTypes
<1>3. CASE cmds' = Append(cmds, c) /\ reply' = [reply EXCEPT ![c] = "pending"]
  <2>1. task[c] = "none" /\ ~Waiting(c)
      BY <1>1 DEF LegInv, DialledOnce
  <2>2. cmds' \in Seq(Calls \cup {ShutdownCmd})
      BY <1>3, AppendElements DEF LegInv, LegTypes
  <2>3. LegTypes'
      BY <1>1, <1>3, <2>2 DEF LegInv, LegTypes
  <2>4. \A d \in Calls : reply'[d] = "none" => reply[d] = "none" /\ d # c
      BY <1>3 DEF LegInv, LegTypes
  <2> QED
      BY <1>1, <1>3, <2>1, <2>3, <2>4, SendKeepsLeg
<1> QED
    BY <1>2, <1>3 DEF Place

LEMMA ShutdownKeepsLeg ==
    ASSUME LegInv, Shutdown
    PROVE  LegInv' /\ Progress
<1>1. UNCHANGED <<task, events, picked, reply>> /\ cmds' = Append(cmds, ShutdownCmd)
    BY DEF Shutdown, handleVars
<1>2. cmds' \in Seq(Calls \cup {ShutdownCmd})
    BY <1>1, AppendElements DEF LegInv, LegTypes
<1> QED
    BY <1>1, <1>2, SipAssumption, SendKeepsLeg DEF LegInv, LegTypes

LEMMA TakeKeepsLeg ==
    ASSUME LegInv, NEW c \in Calls, events[c] # <<>>,
           events' = [events EXCEPT ![c] = Tail(events[c])],
           UNCHANGED <<cmds, task, reply, picked>>
    PROVE  LegInv' /\ Progress
<1>1. events[c] \in Seq(Event)
    BY DEF LegInv, LegTypes
<1>2. /\ events'[c] \in Seq(Event)
      /\ \A i \in 1..Len(events'[c]) :
            i + 1 \in 1..Len(events[c]) /\ events'[c][i] = events[c][i + 1]
      /\ \A d \in Calls \ {c} : events'[d] = events[d]
  <2>1. events'[c] = Tail(events[c]) /\ \A d \in Calls \ {c} : events'[d] = events[d]
      BY DEF LegInv, LegTypes
  <2>2. /\ Tail(events[c]) \in Seq(Event)
        /\ \A i \in 1..Len(Tail(events[c])) :
              i + 1 \in 1..Len(events[c]) /\ Tail(events[c])[i] = events[c][i + 1]
      BY <1>1, TailElements
  <2> QED
      BY <2>1, <2>2
<1>3. LegTypes'
    BY <1>1, <1>2, TailElements DEF LegInv, LegTypes
<1>4. \A d \in Calls \ {c} : LegMeans(d)'
    BY <1>2, LegMeansIs DEF LegInv, LegMeans
<1>5. LegMeans(c)'
  <2>1. LegMeans(c) /\ task[c] \notin {"none", "making", "ringing", "acking", "media"}
      BY LegMeansIs DEF LegInv, LegMeans
  <2>2. \A i \in 1..Len(events'[c]) :
            /\ events'[c][i].kind = "answered" => picked[c]
            /\ events'[c][i].kind = "terminated" /\ events'[c][i].reason \in Refusals =>
                  ~picked[c] /\ task[c] = "dead"
      BY <1>2, <2>1 DEF LegMeans
  <2> QED
      BY <2>1, <2>2 DEF LegMeans
<1>6. PickUpInOrder' /\ EventsMean'
    BY <1>4, <1>5 DEF PickUpInOrder, EventsMean, LegMeans
<1> QED
    BY <1>3, <1>6 DEF LegInv, DialledOnce, Waiting, Progress

-----------------------------------------------------------------------------
(* What was recorded stays true while the leg goes on.                     *)
CallMeans(c) ==
    /\ stage[c] = "session" => picked[c]
    /\ stage[c] = "requeued" => ~picked[c] /\ task[c] = "dead"
    /\ Refused(c) => ~picked[c] /\ task[c] = "dead"
    /\ \A r \in result[c] :
          /\ r.as = Resolve(r.cancelled, r.amd, None, r.shape) \/ ~r.shape.answered
          /\ r.as \in {"completed", "announcement"} => picked[c] /\ r.shape.answered

LEMMA CallMeansIs == StageMeans /\ ResultMeans <=> \A c \in Calls : CallMeans(c)
BY DEF StageMeans, ResultMeans, CallMeans

LEMMA ProgressKeepsMeaning ==
    ASSUME Progress, NEW c \in Calls, CallMeans(c),
           stage'[c] = stage[c], result'[c] = result[c]
    PROVE  CallMeans(c)'
BY DEF Progress, CallMeans, Refused

(* run_call of one call moves to a stage without a result ...              *)
LEMMA StageMoves ==
    ASSUME ResultInv, LegInv' /\ Progress, NEW c \in Calls, NEW st \in Stages,
           stage' = [stage EXCEPT ![c] = st], result' = result,
           st = "session" => picked'[c],
           st = "requeued" => ~picked'[c] /\ task'[c] = "dead"
    PROVE  ResultInv'
<1>1. ResultTypes'
    BY DEF ResultInv, ResultTypes
<1>2. stage'[c] = st /\ \A d \in Calls \ {c} : stage'[d] = stage[d]
    BY DEF ResultInv, ResultTypes
<1>3. \A d \in Calls \ {c} : CallMeans(d)'
    BY <1>2, CallMeansIs, ProgressKeepsMeaning DEF ResultInv
<1>4. CallMeans(c)'
    BY <1>2, CallMeansIs DEF ResultInv, CallMeans, Progress, Refused
<1> QED
    BY <1>1, <1>3, <1>4 DEF ResultInv, StageMeans, ResultMeans, CallMeans

(* ... or records one.                                                     *)
LEMMA ResultRecorded ==
    ASSUME ResultInv, LegInv' /\ Progress, NEW c \in Calls,
           NEW isCancelled \in BOOLEAN, NEW amd \in AmdVerdicts, NEW sip,
           NEW shape \in CallShape, Finalizes(c, isCancelled, amd, sip, shape),
           LET as == Resolve(isCancelled, amd, sip, shape) IN
              /\ as \in Refusals => ~picked'[c] /\ task'[c] = "dead"
              /\ as = Resolve(isCancelled, amd, None, shape) \/ ~shape.answered
              /\ as \in {"completed", "announcement"} => picked'[c] /\ shape.answered
    PROVE  ResultInv'
<1> DEFINE r0 == [as |-> Resolve(isCancelled, amd, sip, shape),
                  cancelled |-> isCancelled, amd |-> amd, shape |-> shape]
<1>1. Resolve(isCancelled, amd, sip, shape) \in Dispositions
    BY DEF Resolve, OfSip, OfShape, Dispositions
<1>2. /\ stage' = [stage EXCEPT ![c] = "over"]
      /\ result' = [result EXCEPT ![c] = @ \cup {r0}]
    BY DEF Finalizes
<1>3. /\ r0 \in Recorded /\ r0.as = Resolve(isCancelled, amd, sip, shape)
      /\ r0.cancelled = isCancelled /\ r0.amd = amd /\ r0.shape = shape
    BY <1>1 DEF Recorded
<1> HIDE DEF r0
<1>4. /\ ResultTypes'
      /\ stage'[c] = "over" /\ result'[c] = result[c] \cup {r0}
      /\ \A d \in Calls \ {c} : stage'[d] = stage[d] /\ result'[d] = result[d]
    BY <1>2, <1>3 DEF ResultInv, ResultTypes, Stages
<1>5. \A d \in Calls \ {c} : CallMeans(d)'
    BY <1>4, CallMeansIs, ProgressKeepsMeaning DEF ResultInv
<1>6. CallMeans(c)'
  <2>1. CallMeans(c)
      BY CallMeansIs DEF ResultInv
  <2>2. Refused(c)' => ~picked'[c] /\ task'[c] = "dead"
      BY <1>3, <1>4, <2>1 DEF Refused, CallMeans, Progress
  <2>3. \A r \in result'[c] :
          /\ r.as = Resolve(r.cancelled, r.amd, None, r.shape) \/ ~r.shape.answered
          /\ r.as \in {"completed", "announcement"} => picked'[c] /\ r.shape.answered
      BY <1>3, <1>4, <2>1 DEF CallMeans, Progress
  <2> QED
      BY <1>4, <2>2, <2>3 DEF CallMeans
<1> QED
    BY <1>4, <1>5, <1>6 DEF ResultInv, StageMeans, ResultMeans, CallMeans

(* A result without a conversation: cancelled, or a failure of our own.    *)
LEMMA UnansweredRecorded ==
    ASSUME ResultInv, LegInv' /\ Progress, NEW c \in Calls, NEW isCancelled \in BOOLEAN,
           NEW shape \in {PendingShape, UnansweredShape},
           Finalizes(c, isCancelled, None, None, shape)
    PROVE  ResultInv'
<1>1. shape \in CallShape /\ ~shape.answered /\ None \in AmdVerdicts
  <2>1. None \in AmdVerdicts
      BY DEF AmdVerdicts
  <2>2. ~PendingShape.answered /\ ~UnansweredShape.answered
      BY DEF PendingShape, UnansweredShape
  <2>3. PendingShape \in CallShape /\ UnansweredShape \in CallShape
      BY DEF PendingShape, UnansweredShape, CallShape, EndedBy
  <2> QED
      BY <2>1, <2>2, <2>3
<1>2. Resolve(isCancelled, None, None, shape) \in {"cancelled", "failed"}
    BY <1>1 DEF Resolve, OfSip, None
<1> QED
    BY <1>1, <1>2, ResultRecorded DEF Refusals

-----------------------------------------------------------------------------
(* The steps of run_call.                                                  *)
LEMMA ReplyKeepsLeg ==
    ASSUME LegInv, NEW c \in Calls, reply[c] # "none", NEW to \in {"taken", "unwanted"},
           reply' = [reply EXCEPT ![c] = to], UNCHANGED <<cmds, task, events, picked>>
    PROVE  LegInv' /\ Progress
<1>1. LegTypes'
    BY DEF LegInv, LegTypes
<1> QED
    BY <1>1, IdleKeepsLeg DEF LegInv, LegTypes

LEMMA StillLeg ==
    ASSUME LegInv, UNCHANGED <<cmds, task, events, picked, reply>>
    PROVE  LegInv' /\ Progress
BY IdleKeepsLeg DEF LegInv, LegTypes

(* The first event of the channel.                                         *)
LEMMA FirstEvent ==
    ASSUME LegInv, NEW c \in Calls, events[c] # <<>>
    PROVE  /\ Head(events[c]) \in Event
           /\ Head(events[c]).kind = "answered" => picked[c]
           /\ Head(events[c]).kind = "terminated" /\ Head(events[c]).reason \in Refusals =>
                 ~picked[c] /\ task[c] = "dead"
<1>1. events[c] \in Seq(Event)
    BY DEF LegInv, LegTypes
<1>2. 1 \in 1..Len(events[c]) /\ Head(events[c]) = events[c][1] /\ Head(events[c]) \in Event
    BY <1>1, TailElements
<1> QED
    BY <1>2 DEF LegInv, EventsMean

LEMMA BeforeRingKeeps ==
    ASSUME ResultInv, NEW c \in Calls,
           \/ \E shape \in {PendingShape, UnansweredShape} : CancelledBeforeDial(c, shape)
           \/ PreflightFails(c) \/ Dials(c) \/ PlaceOver(c)
    PROVE  ResultInv'
<1>1. LegInv
    BY DEF ResultInv
<1>2. ASSUME NEW shape \in {PendingShape, UnansweredShape}, CancelledBeforeDial(c, shape)
      PROVE  ResultInv'
  <2>1. LegInv' /\ Progress
      BY <1>1, <1>2, StillLeg DEF CancelledBeforeDial, sipVars
  <2> QED
      BY <1>2, <2>1, UnansweredRecorded DEF CancelledBeforeDial
<1>3. CASE PreflightFails(c)
  <2>1. LegInv' /\ Progress
      BY <1>1, <1>3, StillLeg DEF PreflightFails, sipVars
  <2> QED
      BY <1>3, <2>1, UnansweredRecorded DEF PreflightFails
<1>4. CASE Dials(c)
  <2>1. LegInv' /\ Progress
      BY <1>1, <1>4, PlaceKeepsLeg DEF Dials
  <2> QED
      BY <1>4, <2>1, StageMoves DEF Dials, Stages
<1>5. ASSUME PlaceReturns(c) PROVE LegInv' /\ Progress
  <2>1. reply[c] # "none" /\ reply' = [reply EXCEPT ![c] = "taken"]
        /\ UNCHANGED <<cmds, task, events, picked>>
      BY <1>5 DEF PlaceReturns, Errors, handleVars
  <2> QED
      BY <1>1, <2>1, ReplyKeepsLeg
<1>6. CASE DialFails(c)
    BY <1>5, <1>6, UnansweredRecorded DEF DialFails
<1>7. CASE Rings(c)
    BY <1>5, <1>7, StageMoves DEF Rings, Stages
<1> QED
    BY <1>2, <1>3, <1>4, <1>6, <1>7 DEF PlaceOver

LEMMA RingKeeps ==
    ASSUME ResultInv, NEW c \in Calls, RingOver(c)
    PROVE  ResultInv'
<1>1. LegInv
    BY DEF ResultInv
<1>2. CASE RingAnswered(c)
  <2>1. LegInv' /\ Progress
      BY <1>1, <1>2, TakeKeepsLeg DEF RingAnswered, TakeEvent, handleVars
  <2>2. picked'[c]
      BY <1>1, <1>2, FirstEvent DEF RingAnswered, TakeEvent, handleVars
  <2> QED
      BY <1>2, <2>1, <2>2, StageMoves DEF RingAnswered, Stages
<1>3. CASE RingTerminated(c)
  <2> DEFINE reason == Head(events[c]).reason
             outcome == OutcomeOf(reason)
  <2>1. /\ events[c] # <<>> /\ Head(events[c]).kind = "terminated"
        /\ events' = [events EXCEPT ![c] = Tail(events[c])]
        /\ UNCHANGED <<cmds, task, reply, picked>>
      BY <1>3 DEF RingTerminated, Takes, handleVars
  <2>2. LegInv' /\ Progress
      BY <1>1, <2>1, TakeKeepsLeg
  <2>3. outcome \in Refusals => ~picked'[c] /\ task'[c] = "dead"
      BY <1>1, <2>1, FirstEvent DEF OutcomeOf, Refusals
  <2> HIDE DEF outcome
  <2>4. CASE Finalizes(c, FALSE, None, outcome, UnansweredShape)
    <3>1. UnansweredShape \in CallShape /\ ~UnansweredShape.answered
      <4>1. ~UnansweredShape.answered
          BY DEF UnansweredShape
      <4> QED
          BY <4>1 DEF UnansweredShape, CallShape, EndedBy
    <3>2. Resolve(FALSE, None, outcome, UnansweredShape) = OfSip(outcome)
        BY <3>1 DEF Resolve
    <3>3. OfSip(outcome) \in Refusals => outcome \in Refusals
        BY DEF OfSip, Refusals
    <3>4. OfSip(outcome) \notin {"completed", "announcement"}
        BY DEF OfSip
    <3>5. None \in AmdVerdicts
        BY DEF AmdVerdicts
    <3> QED
        BY <2>2, <2>3, <2>4, <3>1, <3>2, <3>3, <3>4, <3>5, ResultRecorded
  <2>5. CASE outcome = "busy" /\ stage' = [stage EXCEPT ![c] = "requeued"] /\ result' = result
    <3>1. ~picked'[c] /\ task'[c] = "dead"
        BY <2>3, <2>5 DEF Refusals
    <3> QED
        BY <2>2, <2>5, <3>1, StageMoves DEF Stages
  <2> QED
      BY <1>3, <2>4, <2>5 DEF RingTerminated, outcome
<1>4. CASE RingClosed(c)
  <2>1. LegInv' /\ Progress
      BY <1>1, <1>4, StillLeg DEF RingClosed, handleVars
  <2> QED
      BY <1>4, <2>1, UnansweredRecorded DEF RingClosed
<1> QED
    BY <1>2, <1>3, <1>4 DEF RingOver

(* A session ends with the shape of an answered call.                      *)
LEMMA SessionKeeps ==
    ASSUME ResultInv, NEW c \in Calls, SessionHears(c) \/ SessionEnds(c) \/ Unwinds(c)
    PROVE  ResultInv'
<1>1. LegInv
    BY DEF ResultInv
<1>2. CASE SessionHears(c)
  <2>1. LegInv' /\ Progress
      BY <1>1, <1>2, TakeKeepsLeg DEF SessionHears, TakeEvent, handleVars
  <2>2. \A d \in Calls : CallMeans(d)'
      BY <1>2, <2>1, CallMeansIs, ProgressKeepsMeaning DEF SessionHears, ResultInv
  <2> QED
      BY <1>2, <2>1, <2>2
         DEF SessionHears, ResultInv, ResultTypes, StageMeans, ResultMeans, CallMeans
<1>3. CASE SessionEnds(c)
  <2>1. LegInv' /\ Progress
      BY <1>1, <1>3, StillLeg DEF SessionEnds, HangUp, handleVars
  <2>2. PICK isCancelled \in BOOLEAN, r \in SessionResults[c] :
            Finalizes(c, isCancelled, r[1], None, r[2])
      BY <1>3 DEF SessionEnds
  <2>3. r[1] \in AmdVerdicts /\ r[2] \in Shape
      BY ResultAssumption
  <2>4. r[2] \in CallShape /\ r[2].answered
    <3>1. r[2].answered \in {TRUE}
        BY <2>3 DEF Shape
    <3>2. r[2] \in CallShape
        BY <2>3 DEF Shape, CallShape
    <3> QED
        BY <3>1, <3>2
  <2>5. Resolve(isCancelled, r[1], None, r[2]) \notin Refusals
      BY <2>4 DEF Resolve, OfShape, Refusals
  <2>6. picked'[c]
      BY <1>3 DEF SessionEnds, HangUp, handleVars, ResultInv, StageMeans
  <2> QED
      BY <2>1, <2>2, <2>3, <2>4, <2>5, <2>6, ResultRecorded
<1>4. CASE Unwinds(c)
  <2>1. \E to \in {"taken", "unwanted"} :
            reply[c] # "none" /\ reply' = [reply EXCEPT ![c] = to]
      BY <1>4 DEF Unwinds, Abandon
  <2>2. LegInv' /\ Progress
      BY <1>1, <1>4, <2>1, ReplyKeepsLeg DEF Unwinds, Abandon, handleVars
  <2> QED
      BY <1>4, <2>2, StageMoves DEF Unwinds, Stages
<1> QED
    BY <1>2, <1>3, <1>4

LEMMA NextKeepsResultInv == ResultInv /\ [Next]_vars => ResultInv'
<1> SUFFICES ASSUME ResultInv, [Next]_vars PROVE ResultInv'
    OBVIOUS
<1>1. LegInv
    BY DEF ResultInv
<1>2. ASSUME LegInv' /\ Progress, UNCHANGED <<stage, result>> PROVE ResultInv'
  <2>1. \A c \in Calls : CallMeans(c)'
      BY <1>2, CallMeansIs, ProgressKeepsMeaning DEF ResultInv
  <2> QED
      BY <1>2, <2>1 DEF ResultInv, ResultTypes, StageMeans, ResultMeans, CallMeans
<1>3. CASE UNCHANGED vars
    BY <1>1, <1>2, <1>3, StillLeg DEF vars, sipVars
<1> QED
    BY <1>1, <1>2, <1>3, SipKeepsLeg, ShutdownKeepsLeg, BeforeRingKeeps, RingKeeps,
       SessionKeeps DEF Next, RunCall

LEMMA InitResultInv == Init => ResultInv
<1> SUFFICES ASSUME Init PROVE ResultInv
    OBVIOUS
<1>1. LegTypes /\ ResultTypes
    BY EmptySeq DEF Init, SipInit, LegTypes, ResultTypes, Stages
<1>2. 1..Len(cmds) = {} /\ \A c \in Calls : 1..Len(events[c]) = {}
    BY EmptySeq DEF Init, SipInit
<1>3. DialledOnce /\ PickUpInOrder /\ EventsMean
    BY <1>2 DEF Init, SipInit, DialledOnce, Waiting, PickUpInOrder, EventsMean
<1>4. StageMeans /\ ResultMeans
    BY DEF Init, SipInit, StageMeans, ResultMeans, Refused
<1> QED
    BY <1>1, <1>3, <1>4 DEF ResultInv, LegInv

LEMMA MeaningIsEvidence == ResultInv => ResultHasEvidence /\ RefusalIsUnanswered
<1> SUFFICES ASSUME ResultInv PROVE ResultHasEvidence /\ RefusalIsUnanswered
    OBVIOUS
<1>1. RefusalIsUnanswered
    BY DEF ResultInv, StageMeans, ResultMeans, Refused, Refusals, RefusalIsUnanswered
<1>2. ASSUME NEW c \in Calls, NEW r \in result[c], r.as \in {"completed", "announcement"}
      PROVE  /\ r.as = "completed" =>
                  /\ picked[c] /\ ~r.cancelled
                  /\ r.amd = "live" \/ (r.amd \in {"other", None} /\ r.shape.transcript > 0)
             /\ r.as = "announcement" /\ r.amd # "announcement" =>
                  r.shape.endedBy \notin {"error", "model_end_call"}
  <2>1. r \in Recorded
      BY DEF ResultInv, ResultTypes
  <2>2. /\ r.cancelled \in BOOLEAN /\ r.amd \in AmdVerdicts /\ r.shape \in CallShape
      BY <2>1 DEF Recorded
  <2>3. picked[c] /\ r.shape.answered /\ r.as = Resolve(r.cancelled, r.amd, None, r.shape)
      BY <1>2 DEF ResultInv, ResultMeans
  <2> QED
      BY <1>2, <2>2, <2>3 DEF Resolve, OfShape, FastDisconnect, AmdVerdicts, CallShape
<1> QED
    BY <1>1, <1>2 DEF ResultHasEvidence

(* resolve_disposition never claims a conversation or a carrier            *)
(* announcement without evidence, whatever the far end, a shutdown or a    *)
(* panic does to the legs.                                                 *)
THEOREM ResultsHaveEvidence == Spec => []ResultHasEvidence
BY InitResultInv, NextKeepsResultInv, MeaningIsEvidence, PTL DEF Spec

(* A callee who picked up is never dialled again as busy, nor recorded as  *)
(* one who refused.                                                        *)
THEOREM RefusalsAreUnanswered == Spec => []RefusalIsUnanswered
BY InitResultInv, NextKeepsResultInv, MeaningIsEvidence, PTL DEF Spec
=============================================================================
