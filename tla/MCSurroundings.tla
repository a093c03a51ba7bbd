---------------------------- MODULE MCSurroundings ----------------------------
(***************************************************************************)
(* The parts around the core of the bridge, each on instances of its own:  *)
(* channels, media, the outbound spool, native requests, processes and     *)
(* settings.  They share no state below the level of these modules, so a   *)
(* behaviour gives inputs to one part and the others stay as they are.     *)
(***************************************************************************)
EXTENDS ChannelAdapters, PendingRequests, Host, MessageFiles, TLC

-----------------------------------------------------------------------------
(* Channels.  Message 3 is of another conversation than 1, 2 and 4. *)
TwoConversations == [m \in Messages |-> IF m = 3 THEN "c2" ELSE "c1"]
Loads == [c \in {"telegram", "weixin", "qq", "feishu", "web"} |->
            CASE c = "qq" -> 3 [] c = "web" -> 2 [] OTHER -> 4]
IdleChannels == ChannelsInit({None}, 0, 0)
SomeChannel ==
  \/ ChannelsInit({"telegram"}, 2, 0) \/ ChannelsInit({"weixin"}, 1, 0)
  \/ ChannelsInit({"qq", "feishu", "web"}, 1, 1)

-----------------------------------------------------------------------------
(* Outbound files.  r2 repeats r1 with copies of its own, r3 is another
   message under the same id; both turns make the same picture. *)
DeliveryKey ==
  [x \in {"r1", "r2", "r3", "r4", "t1", "t2"} |->
     CASE x \in {"r1", "r2"} -> [id |-> "d1", content |-> "a"]
       [] x = "r3" -> [id |-> "d1", content |-> "b"]
       [] x = "r4" -> [id |-> "d2", content |-> "a"]
       [] OTHER -> [id |-> x, content |-> x]]
DeliveryUploads ==
  "r1" :> <<"f1", "f2">> @@ "r2" :> <<"g1", "g2">> @@ "r3" :> <<"h1">> @@ "r4" :> <<"k1">>
Pictures == [t \in FileTurns |-> "pic"]
IdleSpool == SpoolInit({}, 0)
SomeSpool ==
  \/ SpoolInit({"r1", "r2"}, 1) \/ SpoolInit({"r1"}, 2)
  \/ SpoolInit({"r1", "r3", "r4"}, 0) \/ SpoolInit({"t1"}, 2)
  \/ SpoolInit({"r3", "t1", "t2"}, 0)

-----------------------------------------------------------------------------
(* Inbound media: images i1 to i4, documents d1, a sweep for either. *)
Batches ==
  "i1" :> <<"a", "b">> @@ "i2" :> <<"c", "x">> @@ "i3" :> <<"y">>
    @@ "i4" :> <<"e", "f", "g">> @@ "d1" :> <<"d">> @@ "s1" :> <<>> @@ "s2" :> <<>>
MediaKinds == [c \in Fetches |-> IF c \in {"d1", "s2"} THEN "files" ELSE "images"]
IdleMedia == MediaInit({}, 0)
SomeMedia ==
  \/ MediaInit({"i1", "d1", "s2"}, 1) \/ MediaInit({"i1", "s1", "s2"}, 2)
  \/ MediaInit({"i2"}, 2) \/ MediaInit({"i3", "i4"}, 0)

-----------------------------------------------------------------------------
(* Native requests: two connections use id 1 for different requests, and 1 is
   a prefix of 10. *)
RequestIds ==
  "a1" :> 1 @@ "a2" :> 1 @@ "a3" :> 10 @@ "h1" :> 4 @@ "f1" :> 5 @@ "u1" :> 6 @@ "b1" :> 7
Sorts ==
  [c \in Asked |->
     CASE c = "h1" -> "hosted" [] c = "f1" -> "foreign" [] c = "u1" -> "unknown"
       [] OTHER -> "approval"]
RequestTurns ==
  [c \in Asked |-> CASE c = "b1" -> "tb" [] c \in {"f1", "u1"} -> "t2" [] OTHER -> "t1"]
LongerIds == [i \in Ids |-> IF i = 1 THEN {10} ELSE {}]
IdleRequests == RequestsInit({}, 0, 0)
SomeRequests ==
  \/ RequestsInit({"a1", "a2"}, 1, 0) \/ RequestsInit({"h1", "f1"}, 0, 0)
  \/ RequestsInit({"h1"}, 1, 1) \/ RequestsInit({"a1"}, 1, 1) \/ RequestsInit({"a1", "a3"}, 0, 0)
  \/ RequestsInit({"f1", "u1"}, 0, 0) \/ RequestsInit({"u1"}, 1, 1) \/ RequestsInit({"b1"}, 1, 1)
-----------------------------------------------------------------------------
(* Processes: two starts one beside the other, a start and a restart, or a start
   and two restarts one beside the other. *)
OneCommand == {CHOOSE k \in RestartCommands : TRUE}
IdleBridge == ProcessInit({}, {}, 0)
SomeBridge ==
  \/ ProcessInit({}, {1, 2}, 1) \/ ProcessInit(OneCommand, {1, 2}, 1)
  \/ ProcessInit(RestartCommands, Bridges, 0)

IdleCore == CoreInit({}, {}, 0)
SomeCore == CoreInit({"s1", "s2"}, {"c1"}, 2)

-----------------------------------------------------------------------------
(* Settings: c1, c2 are chat commands, g1 to g3 edits of the console, b the
   default the bridge sets. *)
SettingEdits ==
  "c1" :> ("effort" :> "high") @@ "c2" :> ("model" :> "m2")
    @@ "g1" :> ("effort" :> "high" @@ "fast" :> "priority") @@ "g2" :> ("model" :> "m2")
    @@ "g3" :> ("personality" :> "friendly") @@ "g4" :> ("model" :> Unset)
    @@ "b" :> ("permission" :> "full")
Origins ==
  [e \in Edits |-> CASE e \in {"c1", "c2"} -> "chat" [] e = "b" -> "bridge"
                    [] OTHER -> "console"]
Catalog == "m1" :> {"low", "high"} @@ "m2" :> {"low"}
IdleSettings == SettingsInit({}, 0)
SomeSettings ==
  \E edits \in {{"c1", "g2", "b"}, {"c2", "g1", "b"}, {"g1", "g2", "b"}, {"g1", "g4"}, {"g3"}} :
    SettingsInit(edits, 1)

Servers == "p1" :> 1 @@ "p2" :> 1 @@ "p3" :> 2
EnvEdits == {"enabled" :> TRUE, "enabled" :> FALSE @@ "secret" :> FALSE,
             "secret" :> TRUE, "secret" :> FALSE, "other" :> 1}
IdleEnv == EnvInit(Empty, {}, 0)
SomeEnv == \E pages \in {{"p1", "p2"}, {"p1", "p3"}} : EnvInit(Empty, pages, 1)

-----------------------------------------------------------------------------
(* The part a behaviour is about. *)
VARIABLE part
About(this) == part = this
vars == <<part, channelVars, spoolVars, mediaVars, requestVars, processVars, coreVars,
          settingsVars, envVars>>

Init ==
  /\ part \in {"channels", "spool", "media", "requests", "bridge", "core", "settings",
              "env"}
  /\ IF About("channels") THEN SomeChannel ELSE IdleChannels
  /\ IF About("spool") THEN SomeSpool ELSE IdleSpool
  /\ IF About("media") THEN SomeMedia ELSE IdleMedia
  /\ IF About("requests") THEN SomeRequests ELSE IdleRequests
  /\ IF About("bridge") THEN SomeBridge ELSE IdleBridge
  /\ IF About("core") THEN SomeCore ELSE IdleCore
  /\ IF About("settings") THEN SomeSettings ELSE IdleSettings
  /\ IF About("env") THEN SomeEnv ELSE IdleEnv

Next ==
  \/ About("channels") /\ ChannelsNext
       /\ UNCHANGED <<part, spoolVars, mediaVars, requestVars, processVars, coreVars,
                      settingsVars, envVars>>
  \/ About("spool") /\ SpoolNext
       /\ UNCHANGED <<part, channelVars, mediaVars, requestVars, processVars, coreVars,
                      settingsVars, envVars>>
  \/ About("media") /\ MediaNext
       /\ UNCHANGED <<part, channelVars, spoolVars, requestVars, processVars, coreVars,
                      settingsVars, envVars>>
  \/ About("requests") /\ RequestsNext
       /\ UNCHANGED <<part, channelVars, spoolVars, mediaVars, processVars, coreVars,
                      settingsVars, envVars>>
  \/ About("bridge") /\ ProcessNext
       /\ UNCHANGED <<part, channelVars, spoolVars, mediaVars, requestVars, coreVars,
                      settingsVars, envVars>>
  \/ About("core") /\ CoreNext
       /\ UNCHANGED <<part, channelVars, spoolVars, mediaVars, requestVars, processVars,
                      settingsVars, envVars>>
  \/ About("settings") /\ SettingsNext
       /\ UNCHANGED <<part, channelVars, spoolVars, mediaVars, requestVars, processVars,
                      coreVars, envVars>>
  \/ About("env") /\ EnvNext
       /\ UNCHANGED <<part, channelVars, spoolVars, mediaVars, requestVars, processVars,
                      coreVars, settingsVars>>

(* Every part is fair to what it goes on with by itself, never to a fault, an
   input or a user: the tasks of the event loop, its worker threads and child
   processes, the calls that have a deadline.  Only the retry task of the outbox
   needs more than weak fairness: it wakes up again while other users of the
   projection lock come and go, and the lock is first come first served. *)
Fairness ==
  /\ WF_channelVars(About("channels") /\ GatewayStep)
  /\ WF_channelVars(About("channels") /\ LoopRuns)
  /\ \A w \in Requests : WF_channelVars(About("channels") /\ ClientRuns(w))
  /\ WF_spoolVars(About("spool") /\ CleanupEnds)
  /\ WF_spoolVars(About("spool") /\ LaneStep)
  /\ WF_spoolVars(About("spool") /\ NoticeReplacesMissingFile)
  /\ SF_spoolVars(About("spool") /\ RetryStep)
  /\ WF_mediaVars(About("media") /\ ProcessesRun)
  /\ \A c \in Fetches : WF_mediaVars(About("media") /\ CallRuns(c))
  /\ WF_mediaVars(About("media") /\ TimePasses)
  /\ \A w \in Handlers : WF_requestVars(About("requests") /\ Handles(w))
  /\ WF_requestVars(About("requests") /\ Observes)
  /\ WF_requestVars(About("requests") /\ CommandRuns)
  /\ WF_requestVars(About("requests") /\ TasksWork)
  /\ WF_requestVars(About("requests") /\ PeerSettles)
  /\ \A b \in Bridges : WF_processVars(About("bridge") /\ BridgeStep(b))
  /\ \A k \in RestartCommands : WF_processVars(About("bridge") /\ RestartStep(k))
Spec == Init /\ [][Next]_vars /\ Fairness
-----------------------------------------------------------------------------
(* Every part keeps to its types. *)
TypeOK ==
  CASE About("channels") -> MiddlewareTypeOK
    [] About("spool") -> SpoolTypeOK
    [] About("media") -> MediaTypeOK
    [] About("requests") -> RequestsTypeOK
    [] About("bridge") -> ProcessTypeOK
    [] About("core") -> CoreTypeOK
    [] About("settings") -> SettingsTypeOK
    [] About("env") -> EnvTypeOK

(* Everything that was begun comes to its end. *)
EverythingEnds ==
  /\ EveryMessageAnswered /\ QueuedIsDelivered
  /\ FetchesReturn /\ OldIsSwept
  /\ NobodyIsLeftWaiting /\ StopsAndReturns
=============================================================================
