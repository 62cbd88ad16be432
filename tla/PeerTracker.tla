---------------------------- MODULE PeerTracker ----------------------------
(***************************************************************************)
(* daemon/peer-tracker.ts, and how daemon/index.ts feeds it: the records   *)
(* of the peers the node has met, the save that is put off until nothing   *)
(* has changed for half a second, and what a start finds on the disk after *)
(* a clean stop, a crash or a write that failed.                           *)
(*                                                                         *)
(* A record keeps isOnline; the times, counters, names and notes are one   *)
(* number, how often any of them was changed.                              *)
(***************************************************************************)
EXTENDS Naturals

CONSTANTS
  Peer,        \* peers the node may meet
  Moneo,       \* the peer a registry that is empty starts with
  Debounce,    \* ticks the save is put off (500 ms in the code)
  MaxChanges   \* bound: changes of one record

ASSUME TrackerAssumption ==
  Moneo \in Peer /\ Debounce \in Nat \ {0} /\ MaxChanges \in Nat \ {0}

VARIABLES
  phase,           \* where main() is
  peers,           \* the Map, as a function: NoRecord for a peer not in it
  isDirty,
  saveTimer,       \* ticks left, NoTimer when null, Fired once it has run out
  disk,            \* peers.json
  connected,       \* peers libp2p has a connection to
  nodeStatusMap,   \* peers whose status broadcast this process has received
  forgotten        \* history: connected peers deleted since they connected

processVars == <<peers, isDirty, saveTimer, nodeStatusMap>>
vars == <<phase, processVars, disk, connected, forgotten>>

(* No process; node.start(), then the wait for the relay, before the        *)
(* listeners are attached; everything up; shutdown() waits for node.stop(). *)
Phase == {"down", "starting", "waiting", "running", "stopping"}

Record == [tracked : BOOLEAN, isOnline : BOOLEAN, changes : 0 .. MaxChanges]
NoRecord == [tracked |-> FALSE, isOnline |-> FALSE, changes |-> 0]
NewRecord == [tracked |-> TRUE, isOnline |-> FALSE, changes |-> 0]

NoTimer == Debounce + 1
Fired == Debounce + 2

NoPeers == [p \in Peer |-> NoRecord]
Saved(records) == [state |-> "saved", peers |-> records]
Unreadable(state) == [state |-> state, peers |-> NoPeers]

TypeOK ==
  /\ phase \in Phase
  /\ peers \in [Peer -> Record]
  /\ isDirty \in BOOLEAN
  /\ saveTimer \in 0 .. Fired
  /\ disk \in [state : {"absent", "torn", "saved"}, peers : [Peer -> Record]]
  /\ connected \subseteq Peer
  /\ nodeStatusMap \subseteq Peer
  /\ forgotten \subseteq Peer

Init ==
  /\ phase = "down"
  /\ peers = NoPeers
  /\ isDirty = FALSE
  /\ saveTimer = NoTimer
  /\ disk = Unreadable("absent")
  /\ connected = {}
  /\ nodeStatusMap = {}
  /\ forgotten = {}

----------------------------------------------------------------------------
(* The tracker.                                                             *)

Tracked(p) == peers[p].tracked

Online == {p \in Peer : peers[p].isOnline}

(* Each change starts the half second again.                                *)
ScheduleSave == isDirty' = TRUE /\ saveTimer' = Debounce

(* trackPeer, and then the record as the caller leaves it.                  *)
RecordOf(p) == IF Tracked(p) THEN peers[p] ELSE NewRecord

Put(p, record) == peers' = [peers EXCEPT ![p] = record] /\ ScheduleSave

(* The updaters that leave isOnline alone.                                  *)
Update(p) ==
  /\ RecordOf(p).changes < MaxChanges
  /\ Put(p, [RecordOf(p) EXCEPT !.changes = @ + 1])

RecordConnected(p) == Put(p, [RecordOf(p) EXCEPT !.isOnline = TRUE])

RecordDisconnected(p) == Put(p, [RecordOf(p) EXCEPT !.isOnline = FALSE])

(* load(): a file that is missing or does not parse leaves the Map empty,   *)
(* and an empty Map is given its first peer and saved over the file.        *)
Load ==
  IF \E p \in Peer : disk.peers[p].tracked
  THEN peers' = disk.peers /\ isDirty' = FALSE /\ saveTimer' = NoTimer
  ELSE peers' = [NoPeers EXCEPT ![Moneo] = NewRecord] /\ ScheduleSave

(* Mutant of SaveFails: a write that failed counts as one that was made. *)
SaveLosesFailure ==
  /\ phase # "down" /\ saveTimer = 0
  /\ disk' \in {disk, Unreadable("torn")}
  /\ isDirty' = FALSE
  /\ saveTimer' = NoTimer
  /\ UNCHANGED <<phase, peers, connected, nodeStatusMap, forgotten>>

(* The timer runs out and save() writes the file.                           *)
Save ==
  /\ phase # "down" /\ saveTimer = 0
  /\ disk' = Saved(peers)
  /\ isDirty' = FALSE
  /\ saveTimer' = NoTimer
  /\ UNCHANGED <<phase, peers, connected, nodeStatusMap, forgotten>>

(* The write throws, before or after the file was emptied: the timer has    *)
(* run out, and nothing but the next change sets another.                   *)
SaveFails ==
  /\ phase # "down" /\ saveTimer = 0
  /\ disk' \in {disk, Unreadable("torn")}
  /\ saveTimer' = Fired
  /\ UNCHANGED <<phase, peers, isDirty, connected, nodeStatusMap, forgotten>>

----------------------------------------------------------------------------
(* The process.                                                             *)

(* new PeerTracker, then the node starts.                                   *)
Start ==
  /\ phase = "down"
  /\ phase' = "starting"
  /\ Load
  /\ UNCHANGED <<disk, connected, nodeStatusMap, forgotten>>

(* Mutant of MarkAllOffline: the flags stay. *)
MarkNobodyOffline ==
  /\ phase = "starting"
  /\ phase' = "waiting"
  /\ ScheduleSave
  /\ UNCHANGED <<peers, disk, connected, nodeStatusMap, forgotten>>

(* markAllOffline, once the node is up.                                     *)
MarkAllOffline ==
  /\ phase = "starting"
  /\ phase' = "waiting"
  /\ peers' = [p \in Peer |-> [peers[p] EXCEPT !.isOnline = FALSE]]
  /\ ScheduleSave
  /\ UNCHANGED <<disk, connected, nodeStatusMap, forgotten>>

(* Mutant of Listen: nobody is caught up on. *)
ListenOnly ==
  /\ phase = "waiting"
  /\ phase' = "running"
  /\ UNCHANGED <<processVars, disk, connected, forgotten>>

(* The listeners are attached, and who connected before is caught up on.    *)
Listen ==
  /\ phase = "waiting"
  /\ phase' = "running"
  /\ peers' = [p \in Peer |->
                 IF p \in connected THEN [RecordOf(p) EXCEPT !.isOnline = TRUE] ELSE peers[p]]
  /\ IF connected # {} THEN ScheduleSave ELSE UNCHANGED <<isDirty, saveTimer>>
  /\ UNCHANGED <<disk, connected, nodeStatusMap, forgotten>>

Shutdown ==
  /\ phase \in {"starting", "waiting", "running"}
  /\ phase' = "stopping"
  /\ UNCHANGED <<processVars, disk, connected, forgotten>>

(* The process is gone, and with it the Map and the timer.                  *)
Down ==
  /\ phase' = "down"
  /\ peers' = NoPeers
  /\ isDirty' = FALSE
  /\ saveTimer' = NoTimer
  /\ connected' = {}
  /\ nodeStatusMap' = {}
  /\ forgotten' = {}

(* process.exit at the end of shutdown(), a failed start, or a crash.       *)
Exit ==
  /\ phase # "down"
  /\ Down
  /\ UNCHANGED disk

(* A crash between the emptying of the file and its last byte.              *)
CrashWhileSaving ==
  /\ phase # "down" /\ saveTimer = 0
  /\ Down
  /\ disk' = Unreadable("torn")

----------------------------------------------------------------------------
(* What libp2p, the other nodes and the HTTP API make of it.                *)

Connect(p) ==
  /\ phase # "down"
  /\ p \notin connected
  /\ connected' = connected \cup {p}
  /\ IF phase = "running" THEN RecordConnected(p) ELSE UNCHANGED <<peers, isDirty, saveTimer>>
  /\ UNCHANGED <<phase, disk, nodeStatusMap, forgotten>>

Disconnect(p) ==
  /\ p \in connected
  /\ connected' = connected \ {p}
  /\ forgotten' = forgotten \ {p}
  /\ IF phase = "running" THEN RecordDisconnected(p) ELSE UNCHANGED <<peers, isDirty, saveTimer>>
  /\ UNCHANGED <<phase, disk, nodeStatusMap>>

(* An announcement tracks its peer, and updates its services if it has any. *)
Announced(p) ==
  /\ phase = "running"
  /\ \/ Update(p)
     \/ ~Tracked(p) /\ Put(p, NewRecord)
  /\ UNCHANGED <<phase, disk, connected, nodeStatusMap, forgotten>>

(* A message or a payment comes in.                                         *)
Received(p) ==
  /\ phase \in {"running", "stopping"}
  /\ Update(p)
  /\ UNCHANGED <<phase, disk, connected, nodeStatusMap, forgotten>>

(* The API sent a message or a payment, or was given a name, notes or tags. *)
Edited(p) ==
  /\ phase \in {"running", "stopping"}
  /\ Update(p)
  /\ UNCHANGED <<phase, disk, connected, nodeStatusMap, forgotten>>

StatusReceived(p) ==
  /\ phase = "running"
  /\ nodeStatusMap' = nodeStatusMap \cup {p}
  /\ RecordOf(p).changes < MaxChanges
  /\ Put(p, [RecordOf(p) EXCEPT !.changes = @ + 1, !.isOnline = TRUE])
  /\ UNCHANGED <<phase, disk, connected, forgotten>>

(* Mutant of Remove: the save is not scheduled. *)
RemoveUnsaved(p) ==
  /\ phase \in {"running", "stopping"}
  /\ Tracked(p)
  /\ peers' = [peers EXCEPT ![p] = NoRecord]
  /\ forgotten' = forgotten \cup (connected \cap {p})
  /\ UNCHANGED <<phase, isDirty, saveTimer, disk, connected, nodeStatusMap>>

(* DELETE /peers/tracked/:peerId                                            *)
Remove(p) ==
  /\ phase \in {"running", "stopping"}
  /\ Tracked(p)
  /\ Put(p, NoRecord)
  /\ forgotten' = forgotten \cup (connected \cap {p})
  /\ UNCHANGED <<phase, disk, connected, nodeStatusMap>>

Tick ==
  /\ phase # "down"
  /\ saveTimer \in 1 .. Debounce
  /\ saveTimer' = saveTimer - 1
  /\ UNCHANGED <<phase, peers, isDirty, disk, connected, nodeStatusMap, forgotten>>

PeerStep(p) ==
  \/ Connect(p) \/ Disconnect(p) \/ Announced(p) \/ Received(p) \/ Edited(p)
  \/ StatusReceived(p) \/ Remove(p)

Next ==
  \/ \E p \in Peer : PeerStep(p)
  \/ Start \/ MarkAllOffline \/ Listen \/ Shutdown \/ Exit \/ CrashWhileSaving
  \/ Save \/ SaveFails \/ Tick

Spec == Init /\ [][Next]_vars

(* Time passes, and a timer that has run out is run.                        *)
FairSpec == Spec /\ WF_vars(Tick) /\ WF_vars(Save \/ SaveFails)

----------------------------------------------------------------------------

(* The Map differs from the file only while a timer is set, or after a      *)
(* write that failed: no change is left that nothing will save              *)
(* (peer-tracker.ts:63-95, 219-230), and a start that finds no usable file  *)
(* saves what it began with (30-38, 47-61).                                 *)
SavedUnlessPending ==
  phase # "down" /\ saveTimer = NoTimer => disk = Saved(peers) /\ ~isDirty

(* A peer shown online is connected, or has broadcast its status to this    *)
(* process: the flags a crash left in the file do not survive the start     *)
(* (index.ts:499, 545-553, 608-615).                                        *)
OnlineIsCurrent ==
  phase \in {"waiting", "running"} => Online \subseteq connected \cup nodeStatusMap

(* Every connected peer is shown online, also one that connected while the  *)
(* daemon still waited for its relay, unless its record was deleted since   *)
(* (index.ts:545-553, 611-615).                                             *)
ConnectedIsOnline == phase = "running" => connected \subseteq Online \cup forgotten

(* Once the changes pause for long enough, and no write has failed, the     *)
(* file holds them (peer-tracker.ts:63-95). It says nothing of a node whose *)
(* records change more often than every half second: that one never saves.  *)
QuietIsSaved ==
  /\ [](saveTimer # Fired)
  /\ <>[](phase = "running")
  /\ <>[][saveTimer' # Debounce]_saveTimer
  => <>[](disk = Saved(peers))

=============================================================================
