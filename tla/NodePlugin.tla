----------------------------- MODULE NodePlugin -----------------------------
(***************************************************************************)
(* The node plugin as a process: it is started, reads its configuration,   *)
(* listens on its unix socket and serves the calls of NodeServer, is       *)
(* killed and started again, while the kubelet must have registered it     *)
(* before it calls.  The socket file is in a directory of the node and     *)
(* outlives the process.                                                   *)
(***************************************************************************)
EXTENDS NodeServer

CONSTANTS
  Sources,          \* where a valid XO configuration is found: "file", "env"
  MetadataSource,   \* --node-metadata-source
  Watched           \* BOUND: the paths whose release the liveness properties follow

ASSUME PluginAssumption ==
  /\ Sources \subseteq {"file", "env"}
  /\ MetadataSource \in {"kubernetes", "xo-api"}
  /\ Watched \subseteq Paths

VARIABLES
  process,          \* how far the process has come
  socket,           \* the socket file exists
  providerID,       \* the CCM has written the ProviderID of this node
  registered        \* the kubelet has registered the plugin

plugin == <<process, socket, providerID, registered>>
pluginVars == <<vars, plugin>>

\* The kubelet reaches a process that serves by its file.
PluginTypeOK ==
  /\ process \in {"down", "listen", "serving"}
  /\ {socket, providerID, registered} \subseteq BOOLEAN
  /\ process = "serving" => socket

\* The file of an earlier installation may be there.
PluginInit ==
  /\ Init
  /\ process = "down" /\ socket \in BOOLEAN
  /\ providerID = FALSE /\ registered = FALSE

-----------------------------------------------------------------------------
(* The process. *)

Goes(from, to) == process = from /\ process' = to

\* The mounted file comes first, and the environment when it is missing or not valid.
LoadXOConfig == IF "file" \in Sources THEN "file" ELSE IF "env" \in Sources THEN "env" ELSE None

\* Without a configuration the process ends before it has touched anything.
NewDriver == LoadXOConfig # None

RemoveSocket_Kept ==                   \* mutation: the file is left to the shutdown
  /\ NewDriver /\ Goes("down", "listen")
  /\ UNCHANGED <<vars, socket, providerID, registered>>

\* The container is started, and gets as far as os.Remove: no error without a file.
RemoveSocket ==
  /\ NewDriver /\ Goes("down", "listen")
  /\ socket' = FALSE
  /\ UNCHANGED <<vars, providerID, registered>>

Listen_ThenRemoves ==                  \* mutation: the wrong order
  /\ Goes("listen", "serving")
  /\ socket' = FALSE
  /\ UNCHANGED <<vars, providerID, registered>>

\* A file in the way is an error.  Start swallows it, Run returns nil, and the
\* process ends with status 0.
Listen ==
  /\ Goes("listen", IF socket THEN "down" ELSE "serving")
  /\ socket' = TRUE
  /\ UNCHANGED <<vars, providerID, registered>>

\* The process is killed or an error ends it, with all its calls.  A listener that
\* is closed removes its file, a killed process leaves it; nobody calls Stop.
Exit ==
  /\ process # "down" /\ Crash
  /\ process' = "down"
  /\ socket' \in IF process = "serving" THEN BOOLEAN ELSE {socket}
  /\ UNCHANGED <<providerID, registered>>

-----------------------------------------------------------------------------
(* The kubelet and the CCM. *)

SetProviderID ==
  /\ ~providerID /\ providerID' = TRUE
  /\ UNCHANGED <<vars, process, socket, registered>>

\* GetNodeMetadata: XO is asked, or the ProviderID is parsed.
HasMetadata == MetadataSource = "xo-api" \/ providerID

\* NodeGetInfo: an error fails the registration, which is tried again.
NodeGetInfo ==
  /\ process = "serving" /\ ~registered /\ HasMetadata
  /\ registered' = TRUE
  /\ UNCHANGED <<vars, process, socket, providerID>>

\* The kubelet finds its volumes again, but not its calls, nor the plugin.
RestartKubelet ==
  /\ "restart" \in Faults /\ registered
  /\ registered' = FALSE
  /\ call' = [c \in Calls |-> IF At(c, "idle") \/ ~Heard(c) THEN call[c]
                              ELSE [call[c] EXCEPT !.caller = "left"]]
  /\ UNCHANGED <<device, mounts, kubelet, overtaken, process, socket, providerID>>

Up == process = "serving" /\ registered

\* The VM starts again: nothing is mounted, the disks keep their names, and the
\* kubelet begins anew.
Reboot ==
  /\ "reboot" \in Faults /\ process # "down"
  /\ process' = "down" /\ registered' = FALSE
  /\ mounts' = [p \in Paths |-> <<>>]
  /\ call' = [c \in Calls |-> Idle]
  /\ staged' = [v \in Volumes |-> "no"] /\ pub' = [t \in Targets |-> "no"]
  /\ overtaken' = FALSE
  /\ UNCHANGED <<device, socket, providerID>>

\* What happens when nothing goes wrong.
CalmNext ==
  \/ \E c \in Calls : Up /\ Ask(c) /\ UNCHANGED plugin
  \/ \E c \in Calls : Handle(c) /\ UNCHANGED plugin
  \/ Plug /\ UNCHANGED plugin
  \/ RemoveSocket \/ Listen \/ SetProviderID \/ NodeGetInfo

Fault ==
  \/ \E c \in Calls : (Fails(c) \/ GiveUp(c)) /\ UNCHANGED plugin
  \/ Exit \/ RestartKubelet \/ Reboot

PluginNext == CalmNext \/ Fault

PluginSpec == PluginInit /\ [][PluginNext]_pluginVars

-----------------------------------------------------------------------------
(* Fairness. *)

\* The kubelet repeats what was not acknowledged, although other calls for the
\* volume may come in between.
AskAgain(c, p) ==
  /\ Up /\ UNCHANGED plugin
  /\ IF p \in Volumes THEN staged[p] = "unstaging" /\ StartUnstage(c, p)
     ELSE pub[p] = "unpublishing" /\ StartUnpublish(c, p)

Fairness ==
  /\ WF_pluginVars(RemoveSocket) /\ WF_pluginVars(Listen)
  /\ WF_pluginVars(SetProviderID) /\ WF_pluginVars(NodeGetInfo)
  /\ \A c \in Calls : WF_pluginVars(Handle(c) /\ UNCHANGED plugin)
  /\ \A p \in Watched : SF_pluginVars(\E c \in Calls : AskAgain(c, p))

\* Faults come at any time and in any number, but not for ever.
FaultsEnd == <>[][CalmNext]_pluginVars

FairSpec == PluginSpec /\ Fairness /\ FaultsEnd

-----------------------------------------------------------------------------
(* Properties. *)

\* However the plugin ended, and whatever it left on the node, it serves again and
\* is registered again (server.go:103-116, deploy/csi-xenorchestra-node.yaml).
Recovers == ~Up ~> Up

\* What the kubelet wants gone is gone in the end, after lost answers, crashes,
\* time-outs and restarts, and then it knows (nodeserver.go:170-177, 283-305).
Released ==
  /\ \A t \in Targets \cap Watched : pub[t] = "unpublishing" ~> (pub[t] = "no" \/ overtaken)
  /\ \A v \in Volumes \cap Watched : staged[v] = "unstaging" ~> (staged[v] = "no" \/ overtaken)
=============================================================================
