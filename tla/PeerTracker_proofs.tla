------------------------- MODULE PeerTracker_proofs -------------------------
(***************************************************************************)
(* For any set of peers, any debounce and any bound on the changes: no     *)
(* change is left without a save to come, and the online flags say what    *)
(* they should.                                                            *)
(***************************************************************************)
EXTENDS PeerTracker, TLAPS

(* Online peers are tracked ones, also in the file; and a file that cannot *)
(* be read holds nobody. Load needs both: it takes a file that tracks      *)
(* somebody as it is, and what it takes must be what a save would write.   *)
RecordsWhole == \A p \in Peer : ~peers[p].tracked => ~peers[p].isOnline

DiskWhole ==
  /\ \A p \in Peer : ~disk.peers[p].tracked => ~disk.peers[p].isOnline
  /\ disk.state # "saved" => disk.peers = NoPeers

(* Between markAllOffline and the listeners nobody is online, so that a    *)
(* connection that comes and goes meanwhile leaves no flag behind.         *)
NobodyOnlineYet == phase = "waiting" => Online = {}

IInv ==
  /\ TypeOK
  /\ RecordsWhole
  /\ DiskWhole
  /\ SavedUnlessPending
  /\ OnlineIsCurrent
  /\ ConnectedIsOnline
  /\ NobodyOnlineYet

(* The parts of IInv about the flags.                                      *)
Flags == OnlineIsCurrent /\ ConnectedIsOnline /\ NobodyOnlineYet

LEMMA TimerValues ==
  /\ Debounce \in 0 .. Fired /\ 0 \in 0 .. Fired
  /\ NoTimer \in 0 .. Fired /\ Fired \in 0 .. Fired
  /\ Debounce # NoTimer /\ Fired # NoTimer /\ 0 # NoTimer
BY TrackerAssumption DEF NoTimer, Fired

LEMMA RecordTypes ==
  /\ NoRecord \in Record /\ NewRecord \in Record
  /\ NoPeers \in [Peer -> Record]
  /\ \A p \in Peer : ~NoPeers[p].tracked /\ ~NoPeers[p].isOnline
<1>1. NoRecord \in Record /\ NewRecord \in Record
  BY TrackerAssumption DEF NoRecord, NewRecord, Record
<1>2. NoPeers \in [Peer -> Record]
  BY <1>1 DEF NoPeers
<1>3. \A p \in Peer : ~NoPeers[p].tracked /\ ~NoPeers[p].isOnline
  BY DEF NoPeers, NoRecord
<1> QED BY <1>1, <1>2, <1>3

(* The record an updater starts from.                                      *)
LEMMA RecordOfPeer ==
  ASSUME TypeOK, RecordsWhole, NEW p \in Peer
  PROVE  /\ RecordOf(p) \in Record
         /\ RecordOf(p).tracked
         /\ RecordOf(p).isOnline <=> peers[p].isOnline
<1>1. peers[p] \in Record
  BY DEF TypeOK
<1>2. CASE Tracked(p)
  BY <1>1, <1>2 DEF RecordOf, Tracked
<1>3. CASE ~Tracked(p)
  <2>1. RecordOf(p) = NewRecord /\ ~peers[p].isOnline
    BY <1>3 DEF RecordOf, Tracked, RecordsWhole
  <2> QED BY <2>1, RecordTypes DEF NewRecord
<1> QED BY <1>2, <1>3

(* Putting a record in the Map sets the timer, and changes one flag.       *)
LEMMA PutOne ==
  ASSUME TypeOK, RecordsWhole, NEW p \in Peer, NEW record \in Record,
         ~record.tracked => ~record.isOnline, Put(p, record)
  PROVE  /\ peers' \in [Peer -> Record]
         /\ RecordsWhole'
         /\ isDirty' \in BOOLEAN /\ saveTimer' \in 0 .. Fired
         /\ SavedUnlessPending'
         /\ Online' = (Online \ {p}) \cup {q \in {p} : record.isOnline}
<1>1. /\ peers \in [Peer -> Record]
      /\ peers' = [peers EXCEPT ![p] = record]
      /\ isDirty' = TRUE /\ saveTimer' = Debounce
  BY DEF TypeOK, Put, ScheduleSave
<1>2. peers' \in [Peer -> Record]
  BY <1>1
<1>3. \A q \in Peer : peers'[q] = IF q = p THEN record ELSE peers[q]
  BY <1>1
<1>4. RecordsWhole'
  BY <1>3 DEF RecordsWhole
<1>5. Online' = (Online \ {p}) \cup {q \in {p} : record.isOnline}
  BY <1>3 DEF Online
<1>6. SavedUnlessPending'
  BY <1>1, TimerValues DEF SavedUnlessPending
<1> QED BY <1>1, <1>2, <1>4, <1>5, <1>6, TimerValues

(* An update leaves every flag as it was.                                  *)
LEMMA UpdateOne ==
  ASSUME IInv, NEW p \in Peer, Update(p)
  PROVE  /\ peers' \in [Peer -> Record]
         /\ RecordsWhole'
         /\ isDirty' \in BOOLEAN /\ saveTimer' \in 0 .. Fired
         /\ SavedUnlessPending'
         /\ Online' = Online
<1> DEFINE record == [RecordOf(p) EXCEPT !.changes = @ + 1]
<1>1. /\ RecordOf(p) \in Record /\ RecordOf(p).tracked
      /\ RecordOf(p).isOnline <=> peers[p].isOnline
  BY RecordOfPeer DEF IInv
<1>2. RecordOf(p).changes < MaxChanges /\ Put(p, record)
  BY DEF Update
<1>3. /\ record \in Record /\ record.tracked
      /\ record.isOnline = RecordOf(p).isOnline
  BY <1>1, <1>2, TrackerAssumption DEF Record
<1> HIDE DEF record
<1>4. /\ peers' \in [Peer -> Record]
      /\ RecordsWhole'
      /\ isDirty' \in BOOLEAN /\ saveTimer' \in 0 .. Fired
      /\ SavedUnlessPending'
      /\ Online' = (Online \ {p}) \cup {q \in {p} : record.isOnline}
  BY <1>2, <1>3, PutOne DEF IInv
<1>5. Online' = Online
  BY <1>1, <1>3, <1>4 DEF Online
<1> QED BY <1>4, <1>5

----------------------------------------------------------------------------

LEMMA InitIInv == Init => IInv
<1> SUFFICES ASSUME Init PROVE IInv
  OBVIOUS
<1>1. TypeOK
  BY RecordTypes, TimerValues DEF Init, TypeOK, Phase, Unreadable
<1>2. RecordsWhole /\ DiskWhole
  BY RecordTypes DEF Init, RecordsWhole, DiskWhole, Unreadable
<1>3. SavedUnlessPending /\ Flags
  BY DEF Init, SavedUnlessPending, Flags, OnlineIsCurrent, ConnectedIsOnline, NobodyOnlineYet
<1> QED BY <1>1, <1>2, <1>3 DEF IInv, Flags

(* What the start reads back is what the file holds, or is being saved.    *)
LEMMA StartIInv == IInv /\ Start => IInv'
<1> SUFFICES ASSUME IInv, Start PROVE IInv'
  OBVIOUS
<1>1. DiskWhole' /\ Flags'
  BY DEF IInv, Start, DiskWhole, Flags, OnlineIsCurrent, ConnectedIsOnline, NobodyOnlineYet
<1>2. CASE \E p \in Peer : disk.peers[p].tracked
  <2>1. peers' = disk.peers /\ isDirty' = FALSE /\ saveTimer' = NoTimer
    BY <1>2 DEF Start, Load
  <2>2. TypeOK'
    BY <2>1, TimerValues DEF IInv, TypeOK, Start, Phase
  <2>3. RecordsWhole'
    BY <2>1 DEF IInv, DiskWhole, RecordsWhole
  <2>4. disk = Saved(disk.peers)
    <3>1. disk.state = "saved"
      BY <1>2, RecordTypes DEF IInv, DiskWhole
    <3> QED BY <3>1 DEF IInv, TypeOK, Saved
  <2>5. SavedUnlessPending'
    BY <2>1, <2>4 DEF Start, SavedUnlessPending, Saved
  <2> QED BY <1>1, <2>2, <2>3, <2>5 DEF IInv, Flags
<1>3. CASE ~ \E p \in Peer : disk.peers[p].tracked
  <2>1. /\ peers' = [NoPeers EXCEPT ![Moneo] = NewRecord]
        /\ isDirty' = TRUE /\ saveTimer' = Debounce
    BY <1>3 DEF Start, Load, ScheduleSave
  <2>2. \A p \in Peer : peers'[p] = IF p = Moneo THEN NewRecord ELSE NoRecord
    BY <2>1, TrackerAssumption DEF NoPeers
  <2>3. peers' \in [Peer -> Record]
    BY <2>1, RecordTypes
  <2>4. TypeOK'
    BY <2>1, <2>3, TimerValues DEF IInv, TypeOK, Start, Phase
  <2>5. RecordsWhole'
    BY <2>2 DEF RecordsWhole, NewRecord, NoRecord
  <2>6. SavedUnlessPending'
    BY <2>1, TimerValues DEF SavedUnlessPending
  <2> QED BY <1>1, <2>4, <2>5, <2>6 DEF IInv, Flags
<1> QED BY <1>2, <1>3

LEMMA MarkAllOfflineIInv == IInv /\ MarkAllOffline => IInv'
<1> SUFFICES ASSUME IInv, MarkAllOffline PROVE IInv'
  OBVIOUS
<1>1. /\ peers' = [p \in Peer |-> [peers[p] EXCEPT !.isOnline = FALSE]]
      /\ isDirty' = TRUE /\ saveTimer' = Debounce
  BY DEF MarkAllOffline, ScheduleSave
<1>2. \A p \in Peer : peers'[p] \in Record /\ ~peers'[p].isOnline
  BY <1>1 DEF IInv, TypeOK, Record
<1>3. peers' \in [Peer -> Record]
  BY <1>1, <1>2
<1>4. TypeOK'
  BY <1>1, <1>3, TimerValues DEF IInv, TypeOK, MarkAllOffline, Phase
<1>5. RecordsWhole' /\ Online' = {}
  BY <1>2 DEF RecordsWhole, Online
<1>6. DiskWhole' /\ SavedUnlessPending'
  BY <1>1, TimerValues DEF IInv, MarkAllOffline, DiskWhole, SavedUnlessPending
<1>7. Flags'
  BY <1>5 DEF MarkAllOffline, Flags, OnlineIsCurrent, ConnectedIsOnline, NobodyOnlineYet
<1> QED BY <1>4, <1>5, <1>6, <1>7 DEF IInv, Flags

(* Attaching the listeners catches up on who is connected.                 *)
LEMMA ListenIInv == IInv /\ Listen => IInv'
<1> SUFFICES ASSUME IInv, Listen PROVE IInv'
  OBVIOUS
<1>1. peers' = [p \in Peer |->
                  IF p \in connected THEN [RecordOf(p) EXCEPT !.isOnline = TRUE]
                  ELSE peers[p]]
  BY DEF Listen
<1>2. ASSUME NEW p \in Peer
      PROVE  /\ peers'[p] \in Record
             /\ ~peers'[p].tracked => ~peers'[p].isOnline
             /\ peers'[p].isOnline <=> p \in connected \/ peers[p].isOnline
  <2>1. RecordOf(p) \in Record /\ RecordOf(p).tracked /\ peers[p] \in Record
    BY RecordOfPeer DEF IInv, TypeOK
  <2>2. ~peers[p].tracked => ~peers[p].isOnline
    BY DEF IInv, RecordsWhole
  <2>3. CASE p \in connected
    <3>1. peers'[p] = [RecordOf(p) EXCEPT !.isOnline = TRUE]
      BY <1>1, <2>3
    <3> QED BY <2>1, <2>3, <3>1 DEF Record
  <2>4. CASE p \notin connected
    BY <1>1, <2>1, <2>2, <2>4
  <2> QED BY <2>3, <2>4
<1>3. peers' \in [Peer -> Record]
  BY <1>1, <1>2
<1>4. RecordsWhole' /\ Online' = Online \cup connected
  BY <1>2 DEF IInv, TypeOK, RecordsWhole, Online
<1>5. Flags'
  BY <1>4 DEF IInv, Listen, processVars, Flags, OnlineIsCurrent, ConnectedIsOnline, NobodyOnlineYet
<1>6. DiskWhole'
  BY DEF IInv, Listen, DiskWhole
<1>7. CASE connected # {}
  <2>1. isDirty' = TRUE /\ saveTimer' = Debounce
    BY <1>7 DEF Listen, ScheduleSave
  <2>2. TypeOK' /\ SavedUnlessPending'
    BY <1>3, <2>1, TimerValues DEF IInv, TypeOK, Listen, Phase, SavedUnlessPending
  <2> QED BY <1>4, <1>5, <1>6, <2>2 DEF IInv, Flags
<1>8. CASE connected = {}
  <2>1. UNCHANGED <<isDirty, saveTimer>>
    BY <1>8 DEF Listen
  <2>2. peers' = peers
    BY <1>1, <1>8 DEF IInv, TypeOK
  <2>3. TypeOK'
    BY <1>3, <2>1 DEF IInv, TypeOK, Listen, Phase
  <2>4. SavedUnlessPending'
    BY <2>1, <2>2 DEF IInv, Listen, SavedUnlessPending, Saved
  <2> QED BY <1>4, <1>5, <1>6, <2>3, <2>4 DEF IInv, Flags
<1> QED BY <1>7, <1>8

----------------------------------------------------------------------------
(* The saves, the clock and the end of the process.                        *)

LEMMA SaveIInv == IInv /\ (Save \/ SaveFails \/ Tick) => IInv'
<1> SUFFICES ASSUME IInv, Save \/ SaveFails \/ Tick PROVE IInv'
  OBVIOUS
<1>1. UNCHANGED <<phase, peers, connected, nodeStatusMap, forgotten>>
  BY DEF Save, SaveFails, Tick
<1>2. RecordsWhole' /\ Flags'
  BY <1>1 DEF IInv, RecordsWhole, Flags, OnlineIsCurrent, ConnectedIsOnline, NobodyOnlineYet, Online
<1>3. CASE Save
  <2>1. disk' = Saved(peers) /\ isDirty' = FALSE /\ saveTimer' = NoTimer
    BY <1>3 DEF Save
  <2>2. TypeOK'
    BY <1>1, <2>1, TimerValues DEF IInv, TypeOK, Saved
  <2>3. DiskWhole'
    BY <2>1 DEF IInv, RecordsWhole, DiskWhole, Saved
  <2>4. SavedUnlessPending'
    BY <1>1, <2>1 DEF SavedUnlessPending, Saved
  <2> QED BY <1>2, <2>2, <2>3, <2>4 DEF IInv, Flags
<1>4. CASE SaveFails
  <2>1. disk' \in {disk, Unreadable("torn")} /\ isDirty' = isDirty /\ saveTimer' = Fired
    BY <1>4 DEF SaveFails
  <2>2. TypeOK'
    BY <1>1, <2>1, TimerValues, RecordTypes DEF IInv, TypeOK, Unreadable
  <2>3. DiskWhole'
    BY <2>1, RecordTypes DEF IInv, DiskWhole, Unreadable
  <2>4. SavedUnlessPending'
    BY <2>1, TimerValues DEF SavedUnlessPending
  <2> QED BY <1>2, <2>2, <2>3, <2>4 DEF IInv, Flags
<1>5. CASE Tick
  <2>1. /\ saveTimer \in 1 .. Debounce /\ saveTimer' = saveTimer - 1
        /\ UNCHANGED <<disk, isDirty>>
    BY <1>5 DEF Tick
  <2>2. saveTimer' \in 0 .. Fired /\ saveTimer' # NoTimer
    BY <2>1, TrackerAssumption DEF NoTimer, Fired
  <2>3. TypeOK'
    BY <1>1, <2>1, <2>2 DEF IInv, TypeOK
  <2>4. DiskWhole' /\ SavedUnlessPending'
    BY <2>1, <2>2 DEF IInv, DiskWhole, SavedUnlessPending
  <2> QED BY <1>2, <2>3, <2>4 DEF IInv, Flags
<1> QED BY <1>3, <1>4, <1>5

LEMMA EndIInv == IInv /\ (Exit \/ CrashWhileSaving) => IInv'
<1> SUFFICES ASSUME IInv, Exit \/ CrashWhileSaving PROVE IInv'
  OBVIOUS
<1>1. /\ phase' = "down" /\ peers' = NoPeers /\ isDirty' = FALSE
      /\ saveTimer' = NoTimer /\ connected' = {} /\ nodeStatusMap' = {}
      /\ forgotten' = {}
  BY DEF Exit, CrashWhileSaving, Down
<1>2. disk' \in {disk, Unreadable("torn")}
  BY DEF Exit, CrashWhileSaving
<1>3. TypeOK'
  <2>1. Unreadable("torn") \in [state : {"absent", "torn", "saved"}, peers : [Peer -> Record]]
    BY RecordTypes DEF Unreadable
  <2>2. disk' \in [state : {"absent", "torn", "saved"}, peers : [Peer -> Record]]
    BY <1>2, <2>1 DEF IInv, TypeOK
  <2>3. peers' \in [Peer -> Record]
    BY <1>1, RecordTypes
  <2> QED BY <1>1, <2>2, <2>3, TimerValues DEF TypeOK, Phase
<1>4. RecordsWhole'
  BY <1>1, RecordTypes DEF RecordsWhole
<1>5. DiskWhole'
  BY <1>2, RecordTypes DEF IInv, DiskWhole, Unreadable
<1>6. SavedUnlessPending' /\ Flags'
  BY <1>1 DEF SavedUnlessPending, Flags, OnlineIsCurrent, ConnectedIsOnline, NobodyOnlineYet
<1> QED BY <1>3, <1>4, <1>5, <1>6 DEF IInv, Flags

LEMMA ShutdownIInv == IInv /\ Shutdown => IInv'
<1> SUFFICES ASSUME IInv, Shutdown PROVE IInv'
  OBVIOUS
<1>1. /\ phase # "down" /\ phase' = "stopping"
      /\ UNCHANGED <<peers, isDirty, saveTimer, nodeStatusMap, disk, connected, forgotten>>
  BY DEF Shutdown, processVars
<1>2. TypeOK' /\ RecordsWhole' /\ DiskWhole'
  BY <1>1 DEF IInv, TypeOK, Phase, RecordsWhole, DiskWhole
<1>3. SavedUnlessPending' /\ Flags'
  BY <1>1 DEF IInv, SavedUnlessPending, Saved, Flags, OnlineIsCurrent, ConnectedIsOnline, NobodyOnlineYet
<1> QED BY <1>2, <1>3 DEF IInv, Flags

----------------------------------------------------------------------------
(* What the peers and the API do.                                          *)

LEMMA UpdaterIInv ==
  ASSUME IInv, NEW p \in Peer, Update(p),
         UNCHANGED <<phase, disk, connected, nodeStatusMap, forgotten>>
  PROVE  IInv'
<1>1. /\ peers' \in [Peer -> Record] /\ RecordsWhole'
      /\ isDirty' \in BOOLEAN /\ saveTimer' \in 0 .. Fired
      /\ SavedUnlessPending' /\ Online' = Online
  BY UpdateOne
<1>2. TypeOK' /\ DiskWhole'
  BY <1>1 DEF IInv, TypeOK, DiskWhole
<1>3. Flags'
  BY <1>1 DEF IInv, Flags, OnlineIsCurrent, ConnectedIsOnline, NobodyOnlineYet
<1> QED BY <1>1, <1>2, <1>3 DEF IInv, Flags

(* A peer met for the first time is offline until it connects.             *)
LEMMA AnnouncedIInv ==
  ASSUME IInv, NEW p \in Peer, Announced(p)
  PROVE  IInv'
<1>1. UNCHANGED <<phase, disk, connected, nodeStatusMap, forgotten>>
  BY DEF Announced
<1>2. CASE Update(p)
  BY <1>1, <1>2, UpdaterIInv
<1>3. CASE ~Tracked(p) /\ Put(p, NewRecord)
  <2>1. ~NewRecord.isOnline /\ p \notin Online
    BY <1>3 DEF IInv, RecordsWhole, Tracked, Online, NewRecord
  <2>2. /\ peers' \in [Peer -> Record] /\ RecordsWhole'
        /\ isDirty' \in BOOLEAN /\ saveTimer' \in 0 .. Fired
        /\ SavedUnlessPending'
        /\ Online' = (Online \ {p}) \cup {q \in {p} : NewRecord.isOnline}
    BY <1>3, <2>1, PutOne, RecordTypes DEF IInv
  <2>3. Online' = Online
    BY <2>1, <2>2
  <2>4. TypeOK' /\ DiskWhole' /\ Flags'
    BY <1>1, <2>2, <2>3
    DEF IInv, TypeOK, DiskWhole, Flags, OnlineIsCurrent, ConnectedIsOnline, NobodyOnlineYet
  <2> QED BY <2>2, <2>4 DEF IInv, Flags
<1> QED BY <1>2, <1>3 DEF Announced

LEMMA ConnectIInv ==
  ASSUME IInv, NEW p \in Peer, Connect(p)
  PROVE  IInv'
<1>1. /\ phase # "down" /\ connected' = connected \cup {p}
      /\ UNCHANGED <<phase, disk, nodeStatusMap, forgotten>>
  BY DEF Connect
<1>2. CASE phase = "running"
  <2> DEFINE record == [RecordOf(p) EXCEPT !.isOnline = TRUE]
  <2>1. record \in Record /\ record.tracked /\ record.isOnline
    BY RecordOfPeer DEF IInv, Record
  <2>2. Put(p, record)
    BY <1>2 DEF Connect, RecordConnected
  <2> HIDE DEF record
  <2>3. /\ peers' \in [Peer -> Record] /\ RecordsWhole'
        /\ isDirty' \in BOOLEAN /\ saveTimer' \in 0 .. Fired
        /\ SavedUnlessPending'
        /\ Online' = (Online \ {p}) \cup {q \in {p} : record.isOnline}
    BY <2>1, <2>2, PutOne DEF IInv
  <2>4. Online' = Online \cup {p}
    BY <2>1, <2>3
  <2>5. TypeOK' /\ DiskWhole'
    BY <1>1, <2>3 DEF IInv, TypeOK, DiskWhole
  <2>6. Flags'
    BY <1>1, <1>2, <2>4
    DEF IInv, Flags, OnlineIsCurrent, ConnectedIsOnline, NobodyOnlineYet
  <2> QED BY <2>3, <2>5, <2>6 DEF IInv, Flags
<1>3. CASE phase # "running"
  <2>1. UNCHANGED <<peers, isDirty, saveTimer>>
    BY <1>3 DEF Connect
  <2>2. TypeOK' /\ RecordsWhole' /\ DiskWhole' /\ SavedUnlessPending'
    BY <1>1, <2>1
    DEF IInv, TypeOK, RecordsWhole, DiskWhole, SavedUnlessPending, Saved
  <2>3. Flags'
    BY <1>1, <1>3, <2>1
    DEF IInv, Flags, OnlineIsCurrent, ConnectedIsOnline, NobodyOnlineYet, Online
  <2> QED BY <2>2, <2>3 DEF IInv, Flags
<1> QED BY <1>2, <1>3

LEMMA DisconnectIInv ==
  ASSUME IInv, NEW p \in Peer, Disconnect(p)
  PROVE  IInv'
<1>1. /\ p \in connected
      /\ connected' = connected \ {p} /\ forgotten' = forgotten \ {p}
      /\ UNCHANGED <<phase, disk, nodeStatusMap>>
  BY DEF Disconnect
<1>2. CASE phase = "running"
  <2> DEFINE record == [RecordOf(p) EXCEPT !.isOnline = FALSE]
  <2>1. record \in Record /\ record.tracked /\ ~record.isOnline
    BY RecordOfPeer DEF IInv, Record
  <2>2. Put(p, record)
    BY <1>2 DEF Disconnect, RecordDisconnected
  <2> HIDE DEF record
  <2>3. /\ peers' \in [Peer -> Record] /\ RecordsWhole'
        /\ isDirty' \in BOOLEAN /\ saveTimer' \in 0 .. Fired
        /\ SavedUnlessPending'
        /\ Online' = (Online \ {p}) \cup {q \in {p} : record.isOnline}
    BY <2>1, <2>2, PutOne DEF IInv
  <2>4. Online' = Online \ {p}
    BY <2>1, <2>3
  <2>5. TypeOK' /\ DiskWhole' /\ Flags'
    BY <1>1, <2>3, <2>4
    DEF IInv, TypeOK, DiskWhole, Flags, OnlineIsCurrent, ConnectedIsOnline, NobodyOnlineYet
  <2> QED BY <2>3, <2>5 DEF IInv, Flags
<1>3. CASE phase # "running"
  <2>1. UNCHANGED <<peers, isDirty, saveTimer>>
    BY <1>3 DEF Disconnect
  <2>2. TypeOK' /\ RecordsWhole' /\ DiskWhole' /\ SavedUnlessPending'
    BY <1>1, <2>1
    DEF IInv, TypeOK, RecordsWhole, DiskWhole, SavedUnlessPending, Saved
  <2>3. Flags'
    BY <1>1, <1>3, <2>1
    DEF IInv, Flags, OnlineIsCurrent, ConnectedIsOnline, NobodyOnlineYet, Online
  <2> QED BY <2>2, <2>3 DEF IInv, Flags
<1> QED BY <1>2, <1>3

LEMMA StatusReceivedIInv ==
  ASSUME IInv, NEW p \in Peer, StatusReceived(p)
  PROVE  IInv'
<1> DEFINE record == [RecordOf(p) EXCEPT !.changes = @ + 1, !.isOnline = TRUE]
<1>1. /\ phase = "running" /\ nodeStatusMap' = nodeStatusMap \cup {p}
      /\ RecordOf(p).changes < MaxChanges
      /\ UNCHANGED <<phase, disk, connected, forgotten>>
  BY DEF StatusReceived
<1>2. record \in Record /\ record.tracked /\ record.isOnline
  <2>1. RecordOf(p) \in Record /\ RecordOf(p).tracked
    BY RecordOfPeer DEF IInv
  <2>2. ASSUME NEW r \in Record, r.tracked, r.changes < MaxChanges,
               NEW s, s = [r EXCEPT !.changes = @ + 1, !.isOnline = TRUE]
        PROVE  s \in Record /\ s.tracked /\ s.isOnline
    <3>1. r.changes + 1 \in 0 .. MaxChanges
      BY <2>2, TrackerAssumption DEF Record
    <3>2. s = [tracked |-> r.tracked, isOnline |-> TRUE, changes |-> r.changes + 1]
      BY <2>2 DEF Record
    <3> QED BY <2>2, <3>1, <3>2 DEF Record
  <2> QED BY <1>1, <2>1, <2>2
<1>3. Put(p, record)
  BY DEF StatusReceived
<1> HIDE DEF record
<1>4. /\ peers' \in [Peer -> Record] /\ RecordsWhole'
      /\ isDirty' \in BOOLEAN /\ saveTimer' \in 0 .. Fired
      /\ SavedUnlessPending'
      /\ Online' = (Online \ {p}) \cup {q \in {p} : record.isOnline}
  BY <1>2, <1>3, PutOne DEF IInv
<1>5. Online' = Online \cup {p}
  BY <1>2, <1>4
<1>6. TypeOK' /\ DiskWhole' /\ Flags'
  BY <1>1, <1>4, <1>5
  DEF IInv, TypeOK, DiskWhole, Flags, OnlineIsCurrent, ConnectedIsOnline, NobodyOnlineYet
<1> QED BY <1>4, <1>6 DEF IInv, Flags

(* A connected peer whose record goes is remembered as forgotten.          *)
LEMMA RemoveIInv ==
  ASSUME IInv, NEW p \in Peer, Remove(p)
  PROVE  IInv'
<1>1. /\ phase \in {"running", "stopping"}
      /\ Put(p, NoRecord)
      /\ forgotten' = forgotten \cup (connected \cap {p})
      /\ UNCHANGED <<phase, disk, connected, nodeStatusMap>>
  BY DEF Remove
<1>2. ~NoRecord.isOnline
  BY DEF NoRecord
<1>3. /\ peers' \in [Peer -> Record] /\ RecordsWhole'
      /\ isDirty' \in BOOLEAN /\ saveTimer' \in 0 .. Fired
      /\ SavedUnlessPending'
      /\ Online' = (Online \ {p}) \cup {q \in {p} : NoRecord.isOnline}
  BY <1>1, <1>2, PutOne, RecordTypes DEF IInv
<1>4. Online' = Online \ {p}
  BY <1>2, <1>3
<1>5. TypeOK' /\ DiskWhole' /\ Flags'
  BY <1>1, <1>3, <1>4
  DEF IInv, TypeOK, DiskWhole, Flags, OnlineIsCurrent, ConnectedIsOnline, NobodyOnlineYet
<1> QED BY <1>3, <1>5 DEF IInv, Flags

LEMMA StepIInv == IInv /\ [Next]_vars => IInv'
<1> SUFFICES ASSUME IInv, [Next]_vars PROVE IInv'
  OBVIOUS
<1>1. ASSUME NEW p \in Peer, PeerStep(p) PROVE IInv'
  <2>1. CASE Connect(p) \/ Disconnect(p) \/ StatusReceived(p) \/ Remove(p) \/ Announced(p)
    BY <2>1, ConnectIInv, DisconnectIInv, StatusReceivedIInv, RemoveIInv, AnnouncedIInv
  <2>2. CASE Received(p) \/ Edited(p)
    BY <2>2, UpdaterIInv DEF Received, Edited
  <2> QED BY <1>1, <2>1, <2>2 DEF PeerStep
<1>2. CASE Start \/ MarkAllOffline \/ Listen \/ Shutdown
  BY <1>2, StartIInv, MarkAllOfflineIInv, ListenIInv, ShutdownIInv
<1>3. CASE Exit \/ CrashWhileSaving \/ Save \/ SaveFails \/ Tick
  BY <1>3, EndIInv, SaveIInv
<1>4. CASE UNCHANGED vars
  <2>1. TypeOK' /\ RecordsWhole' /\ DiskWhole' /\ SavedUnlessPending'
    BY <1>4
    DEF vars, processVars, IInv, TypeOK, RecordsWhole, DiskWhole, SavedUnlessPending, Saved
  <2>2. Flags'
    BY <1>4 DEF vars, processVars, IInv, Flags, OnlineIsCurrent, ConnectedIsOnline,
                NobodyOnlineYet, Online
  <2> QED BY <2>1, <2>2 DEF IInv, Flags
<1> QED BY <1>1, <1>2, <1>3, <1>4 DEF Next

(* The Map, the timer and the file keep their types.                       *)
THEOREM TypeCorrect == Spec => []TypeOK
<1>1. IInv => TypeOK
  BY DEF IInv
<1> QED BY <1>1, InitIInv, StepIInv, PTL DEF Spec

(* The Map and peers.json differ only while a timer is set or after a      *)
(* write that failed, through every crash, torn file and restart.          *)
THEOREM NothingLeftUnsaved == Spec => []SavedUnlessPending
<1>1. IInv => SavedUnlessPending
  BY DEF IInv
<1> QED BY <1>1, InitIInv, StepIInv, PTL DEF Spec

(* No online flag outlives the process that set it: a peer shown online is *)
(* connected, or has broadcast its status to this process.                 *)
THEOREM OnlineFlagsCurrent == Spec => []OnlineIsCurrent
<1>1. IInv => OnlineIsCurrent
  BY DEF IInv
<1> QED BY <1>1, InitIInv, StepIInv, PTL DEF Spec

(* Every connection is shown, also one made before the listeners were.     *)
THEOREM ConnectionsShown == Spec => []ConnectedIsOnline
<1>1. IInv => ConnectedIsOnline
  BY DEF IInv
<1> QED BY <1>1, InitIInv, StepIInv, PTL DEF Spec

=============================================================================
