-------------------- MODULE ConfigurationHistory_proofs --------------------
(***************************************************************************)
(* Proofs about ConfigurationHistory, for any keys, in any order, and any  *)
(* commands at a time.                                                     *)
(***************************************************************************)
EXTENDS ConfigurationHistory, TLAPS

(***************************************************************************)
(* The sets and the helpers of Configuration.                              *)
(***************************************************************************)
LEMMA Sets ==
  /\ Position = DOMAIN KeyOrder /\ 1 \in Position /\ Len(KeyOrder) \in Nat
  /\ \A i \in Position : i \in 1 .. Len(KeyOrder) /\ KeyOrder[i] \in Key
  /\ \A i \in Position : i # Len(KeyOrder) => i + 1 \in Position
  /\ \A k \in Key : \E i \in Position : KeyOrder[i] = k
  /\ \A i, j \in Position : KeyOrder[i] = KeyOrder[j] => i = j
  /\ PrivateKey \in Key /\ IdentityKey \in Key
  /\ "name" \in Setting
  /\ \A s \in Setting : s \notin Key
  /\ Field = Setting \union Key
  /\ Value \subseteq Nat /\ 0 \in Value /\ 1 \in Value /\ 2 \in Value
  /\ Unsure \notin Value
  <1>1. KeyOrder \in Seq(STRING) /\ Len(KeyOrder) \in Nat /\ Len(KeyOrder) # 0
    BY ConfigurationAssumption
  <1>2. DOMAIN KeyOrder = 1 .. Len(KeyOrder)
    BY <1>1
  <1>3. Position = DOMAIN KeyOrder /\ 1 \in Position
    BY <1>1, <1>2 DEF Position
  <1>4. \A i \in Position : i \in 1 .. Len(KeyOrder) /\ KeyOrder[i] \in Key
    BY <1>1, <1>3 DEF Position, Key
  <1>5. \A i \in Position : i # Len(KeyOrder) => i + 1 \in Position
    BY <1>1 DEF Position
  <1>6. \A k \in Key : \E i \in Position : KeyOrder[i] = k
    BY <1>3 DEF Key
  <1>7. \A i, j \in Position : KeyOrder[i] = KeyOrder[j] => i = j
    BY <1>3, ConfigurationAssumption
  <1>8. PrivateKey \in Key /\ IdentityKey \in Key /\ \A s \in Setting : s \notin Key
    BY ConfigurationAssumption
  <1>9. "name" \in Setting /\ Field = Setting \union Key
    BY DEF Setting, Field
  <1>10. /\ Value \subseteq Nat /\ 0 \in Value /\ 1 \in Value /\ 2 \in Value
         /\ Unsure \notin Value
    BY ConfigurationAssumption DEF Value, Unsure
  <1> QED
    BY <1>1, <1>3, <1>4, <1>5, <1>6, <1>7, <1>8, <1>9, <1>10

LEMMA OverlayType ==
  ASSUME NEW c \in Content, NEW ks \in Keys
  PROVE  Overlay(c, ks) \in Content
  BY DEF Overlay, Content, Keys

LEMMA Constants ==
  Blank \in Content /\ NoKeys \in Keys /\ NoCommand \in Command
  BY Sets DEF Blank, NoKeys, NoCommand, Content, Keys, Command, Step

LEMMA StoredType ==
  ASSUME kc \in Keys, NEW c \in Content, NEW i \in Position
  PROVE  Stored(c, i) \in Keys
  BY Sets DEF Stored, Content, Keys

LEMMA DecryptedType ==
  ASSUME enc \in Keys
  PROVE  Decrypted \in Keys
  BY Constants DEF Decrypted

LEMMA KeysOfType ==
  ASSUME NEW c \in Content
  PROVE  KeysOf(c) \in Keys
  BY Sets DEF KeysOf, Content, Keys

(* loadConfig() returns a config.                                           *)
LEMMA ReturnTypes ==
  ASSUME env \in Keys, NEW c \in Content, Return(c)
  PROVE  phase' = "loaded" /\ mem' \in Content /\ at' \in Position /\ found' \in Keys
  BY Sets, Constants, OverlayType DEF Return

LEMMA DownTypes ==
  ASSUME Down
  PROVE  phase' = "down" /\ mem' \in Content /\ at' \in Position /\ found' \in Keys
  BY Sets, Constants DEF Down

(* What ends, and what goes on, is a command.                               *)
LEMMA EndsTypes ==
  ASSUME cli \in [Client -> Command], NEW c \in Client, Ends(c)
  PROVE  cli' \in [Client -> Command]
  BY Constants DEF Ends

LEMMA NextNumber ==
  ASSUME commands \in Value, NEW c \in Client, Begins(c)
  PROVE  commands' \in Value /\ commands' # 0
  BY ConfigurationAssumption DEF Begins, Value

(***************************************************************************)
(* TypeOK.                                                                 *)
(***************************************************************************)
LEMMA InitTypeOK == Init => TypeOK
  <1> SUFFICES ASSUME Init PROVE TypeOK
    OBVIOUS
  <1>1. [k \in Key |-> 1] \in Keys /\ [NoKeys EXCEPT ![IdentityKey] = 2] \in Keys
    BY Sets, Constants DEF Keys
  <1>2. Overlay(Blank, [k \in Key |-> 1]) \in Content
    BY <1>1, Constants, OverlayType
  <1>3. file \in Content /\ enc \in Keys /\ kc \in Keys /\ env \in Keys
    BY <1>1, <1>2, Constants DEF Init, ConfigInit
  <1>4. cli \in [Client -> Command] /\ commands \in Value /\ at \in Position
    BY Sets, Constants DEF Init, ConfigInit
  <1>5. ConfigTypeOK
    <2>1. crashes \in 0 .. MaxCrashes /\ flips \in 0 .. MaxFlips
      BY ConfigurationAssumption DEF Init, ConfigInit
    <2>2. found \in Keys /\ mem \in Content /\ torn = FALSE /\ phase = "down"
      BY Constants DEF Init, ConfigInit
    <2> QED
      BY <1>3, <1>4, <2>1, <2>2 DEF Init, ConfigInit, ConfigTypeOK
  <1> QED
    BY <1>5, Sets DEF Init, TypeOK

(* The steps of the daemon.                                                 *)
LEMMA LoadTypes ==
  ASSUME ConfigTypeOK, Start \/ ReadKey \/ Decide \/ MigrateKey \/ BecomeUp \/ Stop
  PROVE  ConfigTypeOK'
  <1> USE DEF stores, surroundings, daemon, counters, ConfigTypeOK
  <1>1. CASE Start
    BY <1>1, Sets, Constants DEF Start
  <1>2. CASE ReadKey
    <2>1. found' \in Keys
      BY <1>2, Sets DEF ReadKey, Keys
    <2> QED
      BY <1>2, <2>1, Sets DEF ReadKey, Last
  <1>3. CASE Decide
    <2> DEFINE c == IF HasKeys(found) THEN Overlay(mem, found) ELSE Overlay(mem, Decrypted)
    <2>1. c \in Content
      BY OverlayType, DecryptedType
    <2> HIDE DEF c
    <2>2. \/ phase' = "migrating" /\ mem' = c /\ UNCHANGED <<at, found>>
          \/ Return(c)
      BY <1>3 DEF Decide, c
    <2> QED
      BY <1>3, <2>1, <2>2, ReturnTypes DEF Decide
  <1>4. CASE MigrateKey
    <2>1. kc' \in Keys
      BY <1>4, StoredType DEF MigrateKey
    <2>2. \/ Return(mem)
          \/ ~Last(at) /\ at' = at + 1 /\ UNCHANGED <<phase, found, mem>>
      BY <1>4 DEF MigrateKey
    <2>3. tip' \in BOOLEAN
      BY <1>4 DEF MigrateKey
    <2> QED
      BY <1>4, <2>1, <2>2, <2>3, ReturnTypes, Sets DEF MigrateKey, Last
  <1>5. CASE BecomeUp
    BY <1>5 DEF BecomeUp
  <1>6. CASE Stop
    BY <1>6, DownTypes DEF Stop
  <1> QED
    BY <1>1, <1>2, <1>3, <1>4, <1>5, <1>6

(* The file as the commands and the daemon write it.                        *)
LEMMA TearTypes ==
  ASSUME ConfigTypeOK, TearFile
  PROVE  file' = Blank /\ torn' = TRUE /\ crashes' \in 0 .. MaxCrashes
  BY ConfigurationAssumption DEF ConfigTypeOK, TearFile

LEMMA EditedType ==
  ASSUME ConfigTypeOK, NEW c \in Client
  PROVE  Edited(c) \in Content
  BY DEF ConfigTypeOK, Command, Edited, Content

LEMMA FallBackTypes ==
  ASSUME ConfigTypeOK, NEW c \in Client, NEW v \in Value, FallBack(c, v)
  PROVE  cli' \in [Client -> Command]
  <1>1. [step |-> "setting", copy |-> file, field |-> PrivateKey, value |-> v, at |-> 1]
          \in Command
    BY Sets DEF ConfigTypeOK, Command, Step
  <1> QED
    BY <1>1, Constants DEF ConfigTypeOK, FallBack

(* The steps of a command that write config.json, and those of PUT.         *)
LEMMA WriteTypes ==
  ASSUME ConfigTypeOK, NEW c \in Client,
         \/ \E f \in Setting \union {IdentityKey} : Edit(c, f)
         \/ Write(c) \/ WriteTears(c) \/ PutName(c) \/ PutNameTears(c) \/ CallFails(c)
  PROVE  ConfigTypeOK'
  <1> USE DEF stores, surroundings, daemon, counters, ConfigTypeOK
  <1>1. ASSUME NEW f \in Setting \union {IdentityKey}, Edit(c, f)
        PROVE  ConfigTypeOK'
    <2> DEFINE r == [step |-> IF f = "name" /\ phase = "up" THEN "renaming" ELSE "setting",
                     copy |-> file, field |-> f, value |-> commands', at |-> 1]
    <2>1. commands' \in Value
      BY <1>1, NextNumber DEF Edit
    <2>2. r \in Command
      BY <2>1, Sets DEF Command, Step
    <2>3. cli' = [cli EXCEPT ![c] = r]
      BY <1>1 DEF Edit
    <2> HIDE DEF r
    <2>4. cli' \in [Client -> Command]
      BY <2>2, <2>3
    <2> QED
      BY <1>1, <2>1, <2>4 DEF Edit
  <1>2. CASE Write(c)
    <2>1. file' \in Content /\ torn' = FALSE
      BY <1>2, EditedType DEF Write, WriteFile
    <2>2. ASSUME Becomes(c, "calling") PROVE cli' \in [Client -> Command]
      BY <2>2 DEF Becomes, Command, Step
    <2>3. cli' \in [Client -> Command]
      BY <1>2, <2>2, EndsTypes DEF Write
    <2> QED
      BY <1>2, <2>1, <2>3 DEF Write
  <1>3. CASE WriteTears(c)
    BY <1>3, TearTypes, EndsTypes, Constants DEF WriteTears
  <1>4. CASE PutName(c)
    <2>1. cli[c].value \in Value
      BY DEF Command
    <2>2. mem' \in Content
      BY <1>4, <2>1 DEF PutName, Content
    <2> QED
      BY <1>4, <2>2, EndsTypes DEF PutName, WriteFile
  <1>5. CASE PutNameTears(c)
    BY <1>5, TearTypes, EndsTypes, DownTypes, Constants DEF PutNameTears
  <1>6. CASE CallFails(c)
    BY <1>6, EndsTypes DEF CallFails
  <1> QED
    BY <1>1, <1>2, <1>3, <1>4, <1>5, <1>6

(* The steps of a command that store keys.                                  *)
LEMMA StoreTypes ==
  ASSUME ConfigTypeOK, NEW c \in Client,
         \/ ImportKey(c) \/ StoreImported(c) \/ StoreFails(c)
         \/ Migrate(c) \/ CliMigrateKey(c)
         \/ Encrypt(c) \/ WriteEncrypted(c) \/ Abandon(c)
  PROVE  ConfigTypeOK'
  <1> USE DEF stores, surroundings, daemon, counters, ConfigTypeOK
  <1>0. cli[c] \in Command
    OBVIOUS
  <1>1. CASE ImportKey(c)
    <2>1. commands' \in Value
      BY <1>1, NextNumber DEF ImportKey
    <2>2. [NoCommand EXCEPT !.step = "importing", !.value = commands'] \in Command
      BY <2>1, Constants DEF Command, Step
    <2>3. cli' \in [Client -> Command]
      BY <1>1, <2>1, <2>2, FallBackTypes DEF ImportKey
    <2> QED
      BY <1>1, <2>1, <2>3 DEF ImportKey
  <1>2. CASE StoreImported(c)
    <2>1. kc' \in Keys
      BY <1>2, <1>0, Sets DEF StoreImported, Keys, Command
    <2> QED
      BY <1>2, <2>1, EndsTypes DEF StoreImported
  <1>3. CASE StoreFails(c)
    BY <1>3, <1>0, FallBackTypes DEF StoreFails, Command
  <1>4. CASE Migrate(c) \/ Encrypt(c)
    <2>1. ASSUME NEW s \in Step,
                 cli' = [cli EXCEPT ![c] = [NoCommand EXCEPT !.step = s, !.copy = file]]
          PROVE  cli' \in [Client -> Command]
      <3>1. [NoCommand EXCEPT !.step = s, !.copy = file] \in Command
        BY Constants DEF Command
      <3> DEFINE r == [NoCommand EXCEPT !.step = s, !.copy = file]
      <3>2. r \in Command /\ cli' = [cli EXCEPT ![c] = r]
        BY <2>1, <3>1
      <3> HIDE DEF r
      <3> QED
        BY <3>2
    <2>2. "migrating" \in Step /\ "encrypting" \in Step
      BY DEF Step
    <2>3. cli' \in [Client -> Command]
      BY <1>4, <2>1, <2>2 DEF Migrate, Encrypt
    <2>4. commands' \in Value
      BY <1>4, NextNumber DEF Migrate, Encrypt
    <2> QED
      BY <1>4, <2>3, <2>4 DEF Migrate, Encrypt
  <1>5. CASE CliMigrateKey(c)
    <2> DEFINE i == cli[c].at
    <2>1. i \in Position /\ cli[c].copy \in Content
      BY <1>0 DEF Command
    <2>2. kc' \in Keys /\ tip' \in BOOLEAN
      BY <1>5, <2>1, StoredType DEF CliMigrateKey
    <2>3. ASSUME ~Last(i), cli' = [cli EXCEPT ![c].at = i + 1]
          PROVE  cli' \in [Client -> Command]
      <3> DEFINE r == [cli[c] EXCEPT !.at = i + 1]
      <3>1. i + 1 \in Position
        BY <2>1, <2>3, Sets DEF Last
      <3>2. r \in Command
        BY <1>0, <3>1 DEF Command
      <3>3. cli' = [cli EXCEPT ![c] = r]
        BY <2>3
      <3> HIDE DEF r
      <3> QED
        BY <3>2, <3>3
    <2>4. cli' \in [Client -> Command]
      BY <1>5, <2>3, EndsTypes DEF CliMigrateKey
    <2> QED
      BY <1>5, <2>2, <2>4 DEF CliMigrateKey
  <1>6. CASE WriteEncrypted(c)
    BY <1>6, <1>0, EndsTypes, KeysOfType DEF WriteEncrypted, Encrypted, Command
  <1>7. CASE Abandon(c)
    BY <1>7, EndsTypes DEF Abandon
  <1> QED
    BY <1>1, <1>2, <1>3, <1>4, <1>5, <1>6, <1>7

LEMMA OutsideTypes ==
  ASSUME ConfigTypeOK, RemoveKeys \/ KeychainChanges
  PROVE  ConfigTypeOK'
  <1> USE DEF stores, surroundings, daemon, counters, ConfigTypeOK
  <1>1. CASE RemoveKeys
    BY <1>1, Sets DEF RemoveKeys, Content
  <1>2. CASE KeychainChanges
    BY <1>2, ConfigurationAssumption DEF KeychainChanges
  <1> QED
    BY <1>1, <1>2

(* The record keeps its types along with them.                              *)
LEMMA HistoryTypes ==
  ASSUME TypeOK, ConfigTypeOK'
  PROVE  /\ DaemonKeys \/ OthersKeys =>
              clean' \in BOOLEAN /\ expected' \in [Key -> Value \union {Unsure}]
         /\ SettingsKept \/ (\E c \in Client : Confirmed(c) \/ Renamed(c)) =>
              confirmed' \in [Setting -> Value] /\ quiet' \in [Setting -> BOOLEAN]
  <1>1. ASSUME DaemonKeys
        PROVE  clean' \in BOOLEAN /\ expected' \in [Key -> Value \union {Unsure}]
    <2>1. \A k \in Key : mem'[k] \in Value
      BY Sets DEF ConfigTypeOK, Content
    <2> QED
      BY <1>1, <2>1 DEF DaemonKeys, TypeOK, ConfigTypeOK
  <1>2. ASSUME OthersKeys
        PROVE  clean' \in BOOLEAN /\ expected' \in [Key -> Value \union {Unsure}]
    <2>1. \A k \in Key : env[k] \in Value /\ kc'[k] \in Value
      BY DEF TypeOK, ConfigTypeOK, Keys
    <2> QED
      BY <1>2, <2>1 DEF OthersKeys, TypeOK
  <1>3. ASSUME SettingsKept
        PROVE  confirmed' \in [Setting -> Value] /\ quiet' \in [Setting -> BOOLEAN]
    BY <1>3, Sets DEF SettingsKept, TypeOK
  <1>4. ASSUME NEW c \in Client, Confirmed(c) \/ Renamed(c)
        PROVE  confirmed' \in [Setting -> Value] /\ quiet' \in [Setting -> BOOLEAN]
    <2>1. cli[c].value \in Value
      BY DEF TypeOK, ConfigTypeOK, Command
    <2> QED
      BY <1>4, <2>1, Sets DEF Confirmed, Renamed, TypeOK
  <1> QED
    BY <1>1, <1>2, <1>3, <1>4

LEMMA NextTypeOK == TypeOK /\ [Next]_vars => TypeOK'
  <1> SUFFICES ASSUME TypeOK, [Next]_vars PROVE TypeOK'
    OBVIOUS
  <1>0. ConfigTypeOK
    BY DEF TypeOK
  <1>1. CASE DaemonStep
    <2>1. ConfigTypeOK'
      BY <1>0, <1>1, LoadTypes, WriteTypes DEF DaemonStep
    <2> QED
      BY <1>1, <2>1, HistoryTypes DEF DaemonStep, TypeOK
  <1>2. CASE OtherStep
    <2>1. ConfigTypeOK'
      <3>1. CASE RemoveKeys \/ KeychainChanges
        BY <1>0, <3>1, OutsideTypes
      <3>2. CASE \E c \in Client :
                   \/ \E f \in Setting \union {IdentityKey} : Edit(c, f)
                   \/ WriteTears(c) \/ CallFails(c)
        BY <1>0, <3>2, WriteTypes
      <3>3. CASE \E c \in Client :
                   \/ ImportKey(c) \/ StoreImported(c) \/ StoreFails(c)
                   \/ Migrate(c) \/ CliMigrateKey(c)
                   \/ Encrypt(c) \/ WriteEncrypted(c) \/ Abandon(c)
        BY <1>0, <3>3, StoreTypes
      <3> QED
        BY <1>2, <3>1, <3>2, <3>3 DEF OtherStep
    <2> QED
      BY <1>2, <2>1, HistoryTypes DEF OtherStep, TypeOK
  <1>3. ASSUME NEW c \in Client, Write(c), OthersKeys, Confirmed(c)
        PROVE  TypeOK'
    BY <1>0, <1>3, WriteTypes, HistoryTypes DEF TypeOK
  <1>4. ASSUME NEW c \in Client, PutName(c), DaemonKeys, Renamed(c)
        PROVE  TypeOK'
    BY <1>0, <1>4, WriteTypes, HistoryTypes DEF TypeOK
  <1>5. CASE UNCHANGED vars
    BY <1>5 DEF TypeOK, ConfigTypeOK, vars, history, configVars, stores,
                surroundings, daemon, counters
  <1> QED
    BY <1>1, <1>2, <1>3, <1>4, <1>5 DEF Next

(* The files, the keychain, the daemon's copy and what the commands hold    *)
(* are contents of the right fields, for any keys and commands.             *)
THEOREM TypeCorrect == Spec => []TypeOK
  BY InitTypeOK, NextTypeOK, PTL DEF Spec

----------------------------------------------------------------------------
(***************************************************************************)
(* QuietEditSurvives. A setting that was edited quietly has the value that *)
(* the edit confirmed in the file, in the daemon and in every copy of the  *)
(* file that a command may write back; without the copies the invariant is *)
(* not inductive.                                                          *)
(***************************************************************************)
Everywhere(s) ==
  /\ file[s] = confirmed[s]
  /\ phase # "down" => mem[s] = confirmed[s]
  /\ \A c \in Client :
       cli[c].step \in {"setting", "renaming"} => cli[c].copy[s] = confirmed[s]

NoneConfirmed == \A s \in Setting : confirmed[s] = 0

QuietInv ==
  /\ torn => NoneConfirmed
  /\ \A s \in Setting : quiet[s] /\ confirmed[s] # 0 => Everywhere(s)

LEMMA InitQuiet == Init => QuietInv
  BY DEF Init, ConfigInit, QuietInv, NoneConfirmed

(* With a config of keys laid over it a config has the settings it had.     *)
LEMMA OverlayKeepsSettings ==
  ASSUME NEW c, NEW ks, NEW s \in Setting
  PROVE  Overlay(c, ks)[s] = c[s]
  BY Sets DEF Overlay

(* loadConfig() takes the settings from the file, once.                     *)
LEMMA LoadSettings ==
  ASSUME Start \/ ReadKey \/ Decide \/ MigrateKey \/ BecomeUp \/ Stop
  PROVE  /\ UNCHANGED <<file, torn, cli>>
         /\ \/ phase' = "down" \/ mem' = file
            \/ phase # "down" /\ \A s \in Setting : mem'[s] = mem[s]
  <1> USE DEF stores, surroundings, daemon, counters
  <1>1. CASE Decide
    BY <1>1, OverlayKeepsSettings DEF Decide, Return
  <1>2. CASE MigrateKey
    BY <1>2, OverlayKeepsSettings DEF MigrateKey, Return
  <1>3. CASE Start \/ ReadKey \/ BecomeUp \/ Stop
    BY <1>3 DEF Start, ReadKey, BecomeUp, Stop, Down
  <1> QED
    BY <1>1, <1>2, <1>3

LEMMA LoadQuiet ==
  ASSUME TypeOK, QuietInv, SettingsKept,
         Start \/ ReadKey \/ Decide \/ MigrateKey \/ BecomeUp \/ Stop
  PROVE  QuietInv'
  <1>1. UNCHANGED <<confirmed, quiet, file, torn, cli>>
    BY LoadSettings DEF SettingsKept, Torn
  <1>2. ASSUME NEW s \in Setting, Everywhere(s)
        PROVE  Everywhere(s)'
    BY <1>1, <1>2, LoadSettings DEF Everywhere
  <1> QED
    BY <1>1, <1>2 DEF QuietInv, NoneConfirmed

(* A file that is torn owes nothing to anybody.                             *)
LEMMA TornQuiet ==
  ASSUME TypeOK, QuietInv, SettingsKept, torn' = TRUE
  PROVE  QuietInv'
  <1>1. NoneConfirmed'
    BY DEF SettingsKept, Torn, QuietInv, NoneConfirmed, TypeOK, ConfigTypeOK
  <1> QED
    BY <1>1 DEF QuietInv, NoneConfirmed

(* The copies that are made are of the file as it is.                       *)
Copies ==
  /\ UNCHANGED <<torn, phase, mem>>
  /\ \A s \in Setting : file'[s] = file[s]
  /\ \A c \in Client : cli'[c].step \in {"setting", "renaming"} =>
                         cli'[c].copy = file \/ cli'[c] = cli[c]

LEMMA FallBackCopies ==
  ASSUME ConfigTypeOK, NEW c \in Client, NEW v, FallBack(c, v)
  PROVE  \A d \in Client : cli'[d].step \in {"setting", "renaming"} =>
                             cli'[d].copy = file \/ cli'[d] = cli[d]
  BY DEF ConfigTypeOK, FallBack, NoCommand

LEMMA EndsCopies ==
  ASSUME ConfigTypeOK, NEW c \in Client, Ends(c)
  PROVE  \A d \in Client : cli'[d].step \in {"setting", "renaming"} => cli'[d] = cli[d]
  BY DEF ConfigTypeOK, Ends, NoCommand

LEMMA CommandCopies ==
  ASSUME ConfigTypeOK, NEW c \in Client,
         \/ \E f \in Setting \union {IdentityKey} : Edit(c, f)
         \/ CallFails(c)
         \/ ImportKey(c) \/ StoreImported(c) \/ StoreFails(c)
         \/ Migrate(c) \/ CliMigrateKey(c)
         \/ Encrypt(c) \/ WriteEncrypted(c) \/ Abandon(c)
  PROVE  Copies
  <1> USE DEF stores, surroundings, daemon, counters, Copies
  <1>0. cli \in [Client -> Command]
    BY DEF ConfigTypeOK
  <1>1. ASSUME NEW f \in Setting \union {IdentityKey}, Edit(c, f)
        PROVE  Copies
    BY <1>0, <1>1 DEF Edit
  <1>2. CASE CallFails(c) \/ StoreImported(c) \/ WriteEncrypted(c) \/ Abandon(c)
    BY <1>2, EndsCopies DEF CallFails, StoreImported, WriteEncrypted, Abandon
  <1>3. CASE ImportKey(c)
    <2>1. CASE Available
      BY <1>0, <1>3, <2>1 DEF ImportKey, NoCommand
    <2>2. CASE ~Available
      BY <1>3, <2>2, FallBackCopies DEF ImportKey
    <2> QED
      BY <2>1, <2>2
  <1>4. CASE StoreFails(c)
    BY <1>4, FallBackCopies DEF StoreFails
  <1>5. CASE Migrate(c) \/ Encrypt(c)
    BY <1>0, <1>5 DEF Migrate, Encrypt, NoCommand
  <1>6. CASE CliMigrateKey(c)
    <2>1. CASE Ends(c)
      BY <1>6, <2>1, EndsCopies DEF CliMigrateKey
    <2>2. CASE cli' = [cli EXCEPT ![c].at = cli[c].at + 1]
      <3>1. cli'[c].step = "migrating"
        BY <1>0, <1>6, <2>2 DEF CliMigrateKey, Command
      <3> QED
        BY <1>0, <1>6, <2>2, <3>1 DEF CliMigrateKey
    <2> QED
      BY <1>6, <2>1, <2>2 DEF CliMigrateKey
  <1> QED
    BY <1>1, <1>2, <1>3, <1>4, <1>5, <1>6

LEMMA OutsideCopies ==
  ASSUME RemoveKeys \/ KeychainChanges
  PROVE  Copies
  BY Sets DEF RemoveKeys, KeychainChanges, Copies, stores, surroundings, daemon, counters

LEMMA CopiesQuiet ==
  ASSUME TypeOK, QuietInv, SettingsKept, Copies
  PROVE  QuietInv'
  <1>1. UNCHANGED <<confirmed, quiet, torn, phase, mem>>
    BY DEF SettingsKept, Torn, Copies
  <1>2. ASSUME NEW s \in Setting, Everywhere(s)
        PROVE  Everywhere(s)'
    BY <1>1, <1>2 DEF Everywhere, Copies
  <1> QED
    BY <1>1, <1>2 DEF QuietInv, NoneConfirmed

(* Whoever writes the whole file has read it since the edit ...             *)
LEMMA WriteQuiet ==
  ASSUME TypeOK, QuietInv, NEW c \in Client, Write(c), Confirmed(c)
  PROVE  QuietInv'
  <1> DEFINE f == cli[c].field
             v == cli[c].value
  <1>0. cli \in [Client -> Command] /\ f \in Field /\ cli[c].copy \in Content
    BY DEF TypeOK, ConfigTypeOK, Command
  <1>1. /\ file' = [cli[c].copy EXCEPT ![f] = v] /\ torn' = FALSE
        /\ UNCHANGED <<phase, mem>>
        /\ cli[c].step \in {"setting", "renaming"}
    BY DEF Write, WriteFile, Edited, daemon
  <1>2. /\ cli'[c].step \notin {"setting", "renaming"}
        /\ \A d \in Client \ {c} : cli'[d] = cli[d]
    BY <1>0 DEF Write, Becomes, Ends, NoCommand, Command
  <1>3. ASSUME NEW s \in Setting, quiet'[s], confirmed'[s] # 0, s = f
        PROVE  Everywhere(s)'
    <2>1. confirmed'[s] = v /\ phase = "down" /\ \A d \in Client \ {c} : Idle(d)
      BY <1>3 DEF Confirmed, TypeOK
    <2>2. file'[s] = v
      BY <1>0, <1>1, <1>3 DEF Content
    <2> QED
      BY <1>1, <1>2, <2>1, <2>2 DEF Everywhere, Idle
  <1>4. ASSUME NEW s \in Setting, quiet'[s], confirmed'[s] # 0, s # f
        PROVE  Everywhere(s)'
    <2>1. confirmed'[s] = confirmed[s] /\ quiet'[s] = quiet[s]
      BY <1>4 DEF Confirmed, TypeOK
    <2>2. Everywhere(s)
      BY <1>4, <2>1 DEF QuietInv
    <2>3. file'[s] = cli[c].copy[s]
      BY <1>0, <1>1, <1>4, Sets DEF Content
    <2> QED
      BY <1>1, <1>2, <2>1, <2>2, <2>3 DEF Everywhere
  <1> QED
    BY <1>1, <1>3, <1>4 DEF QuietInv

(* ... and so has the daemon.                                               *)
LEMMA PutQuiet ==
  ASSUME TypeOK, QuietInv, NEW c \in Client, PutName(c), Renamed(c)
  PROVE  QuietInv'
  <1> DEFINE v == cli[c].value
  <1>0. cli \in [Client -> Command] /\ mem \in Content /\ "name" \in Setting
    BY Sets DEF TypeOK, ConfigTypeOK
  <1>1. /\ mem' = [mem EXCEPT !["name"] = v] /\ file' = mem' /\ torn' = FALSE
        /\ phase = "up" /\ phase' = phase
    BY DEF PutName, WriteFile
  <1>2. /\ cli'[c].step \notin {"setting", "renaming"}
        /\ \A d \in Client \ {c} : cli'[d] = cli[d]
    BY <1>0 DEF PutName, Ends, NoCommand
  <1>3. ASSUME NEW s \in Setting, quiet'[s], confirmed'[s] # 0
        PROVE  Everywhere(s)'
    <2>1. confirmed'[s] = confirmed[s] /\ quiet[s] /\ (s = "name" => confirmed[s] = v)
      BY <1>0, <1>3 DEF Renamed, TypeOK
    <2>2. Everywhere(s)
      BY <1>3, <2>1 DEF QuietInv
    <2>3. mem'[s] = confirmed[s]
      BY <1>0, <1>1, <2>1, <2>2, Sets DEF Everywhere, Content
    <2> QED
      BY <1>1, <1>2, <2>1, <2>2, <2>3 DEF Everywhere
  <1> QED
    BY <1>1, <1>3 DEF QuietInv

LEMMA NextQuiet == TypeOK /\ QuietInv /\ [Next]_vars => QuietInv'
  <1> SUFFICES ASSUME TypeOK, QuietInv, [Next]_vars PROVE QuietInv'
    OBVIOUS
  <1>0. ConfigTypeOK
    BY DEF TypeOK
  <1>1. CASE DaemonStep
    <2>1. CASE \E c \in Client : PutNameTears(c)
      <3>1. torn' = TRUE
        BY <2>1 DEF PutNameTears, TearFile
      <3> QED
        BY <1>1, <3>1, TornQuiet DEF DaemonStep
    <2> QED
      BY <1>1, <2>1, LoadQuiet DEF DaemonStep
  <1>2. CASE OtherStep
    <2>1. CASE \E c \in Client : WriteTears(c)
      <3>1. torn' = TRUE
        BY <2>1 DEF WriteTears, TearFile
      <3> QED
        BY <1>2, <3>1, TornQuiet DEF OtherStep
    <2>2. CASE Copies
      BY <1>2, <2>2, CopiesQuiet DEF OtherStep
    <2> QED
      BY <1>0, <1>2, <2>1, <2>2, OutsideCopies, CommandCopies DEF OtherStep
  <1>3. ASSUME NEW c \in Client, Write(c), Confirmed(c)
        PROVE  QuietInv'
    BY <1>3, WriteQuiet
  <1>4. ASSUME NEW c \in Client, PutName(c), Renamed(c)
        PROVE  QuietInv'
    BY <1>4, PutQuiet
  <1>5. CASE UNCHANGED vars
    <2>1. UNCHANGED <<file, torn, phase, mem, cli, confirmed, quiet>>
      BY <1>5 DEF vars, history, configVars, stores, daemon
    <2> QED
      BY <2>1 DEF QuietInv, NoneConfirmed, Everywhere
  <1> QED
    BY <1>1, <1>2, <1>3, <1>4, <1>5 DEF Next

(* An edit of a setting made with no daemon and no other command about is   *)
(* kept, by any number of commands and starts, until the next edit of it or *)
(* a crash in the middle of a write.                                        *)
THEOREM QuietEditKept == Spec => []QuietEditSurvives
  <1>1. QuietInv => QuietEditSurvives
    BY DEF QuietInv, Everywhere, QuietEditSurvives
  <1> QED
    BY <1>1, TypeCorrect, InitQuiet, NextQuiet, PTL DEF Spec

----------------------------------------------------------------------------
(***************************************************************************)
(* StartsAgree and KeychainKept. A key that the record expects is one that *)
(* the stores owe to the next start, and a clean start has what it has     *)
(* read of them: nothing but its own steps came between.                   *)
(***************************************************************************)

(* The stores owe v to whoever loads k next.                                *)
Owed(k, v) ==
  IF env[k] # 0 THEN v = env[k]
  ELSE IF kc[k] # 0 THEN v = kc[k]
  ELSE v = file[k] /\ (Decrypted[k] = 0 \/ HasKeys(kc))

(* A clean start has read what is still there, and found in the keychain    *)
(* what is still in it; if it migrates, the keychain was empty and has the  *)
(* keys up to the one it is at.                                             *)
CleanLoad ==
  /\ phase # "down"
  /\ Loading => usable
  /\ phase = "reading" =>
       \A i \in Position : i < at => found[KeyOrder[i]] = kc[KeyOrder[i]]
  /\ phase = "deciding" => at = 1 /\ \A k \in Key : found[k] = kc[k]
  /\ phase \in {"reading", "deciding"} => \A k \in Key : mem[k] = file[k]
  /\ phase = "migrating" =>
       /\ \A k \in Key : mem[k] = IF Decrypted[k] # 0 THEN Decrypted[k] ELSE file[k]
       /\ \A i \in Position :
            kc[KeyOrder[i]] = IF i < at THEN mem[KeyOrder[i]] ELSE 0

(* What a clean daemon has or is about to have for k.                       *)
Loads(k, v) ==
  /\ phase = "migrating" /\ env[k] = 0 => v = mem[k]
  /\ phase \in {"loaded", "up"} => v = mem[k]

Importing == \A c \in Client : cli[c].step = "importing" => cli[c].value # 0

KeysInv ==
  /\ Importing
  /\ clean => CleanLoad
  /\ \A k \in Key : expected[k] # Unsure =>
       Owed(k, expected[k]) /\ (clean => Loads(k, expected[k]))

LEMMA InitKeys == Init => KeysInv
  BY DEF Init, ConfigInit, KeysInv, Importing, NoCommand

(* What is owed stays owed while the stores keep the key, or the keychain,  *)
(* which goes first, does.                                                  *)
LEMMA OwedKept ==
  ASSUME NEW k \in Key, NEW v, Owed(k, v), UNCHANGED <<env, passphrase>>,
         ConfigTypeOK, ConfigTypeOK',
         kc'[k] = kc[k],
         kc[k] = 0 => file'[k] = file[k] /\ enc'[k] = enc[k],
         HasKeys(kc) => HasKeys(kc')
  PROVE  Owed(k, v)'
  <1>1. kc[k] = 0 => Decrypted'[k] = Decrypted[k]
    BY DEF Decrypted, NoKeys
  <1> QED
    BY <1>1 DEF Owed

(* What an Overlay has for a key.                                           *)
LEMMA OverlayKeys ==
  ASSUME NEW c, NEW ks, NEW k \in Key
  PROVE  Overlay(c, ks)[k] = IF ks[k] # 0 THEN ks[k] ELSE c[k]
  BY Sets DEF Overlay

(***************************************************************************)
(* The steps of the commands and of the user.                              *)
(***************************************************************************)

(* What they may do: they leave the daemon alone, never take a key out of   *)
(* the keychain, and import no 0.                                           *)
Others ==
  /\ UNCHANGED <<env, passphrase, daemon>>
  /\ \A k \in Key : kc'[k] = kc[k] \/ kc'[k] # 0
  /\ Importing'

LEMMA OthersKeepKeys ==
  ASSUME TypeOK, ConfigTypeOK', KeysInv, OthersKeys, Others
  PROVE  KeysInv'
  <1> USE DEF Others, daemon
  <1>0. HasKeys(kc) => HasKeys(kc')
    BY DEF HasKeys
  <1>1. ASSUME clean'
        PROVE  CleanLoad'
    <2>1. clean /\ kc' = kc /\ enc' = enc /\ KeysOf(file') = KeysOf(file)
      BY <1>1 DEF OthersKeys
    <2>2. \A k \in Key : file'[k] = file[k]
      BY <2>1 DEF KeysOf
    <2>3. Decrypted' = Decrypted
      BY <2>1 DEF Decrypted
    <2>4. Loading => usable' = usable
      BY <1>1 DEF OthersKeys
    <2> QED
      BY <2>1, <2>2, <2>3, <2>4 DEF KeysInv, CleanLoad, Loading
  <1>2. ASSUME NEW k \in Key, expected'[k] # Unsure
        PROVE  Owed(k, expected[k])' /\ (clean' => Loads(k, expected[k])')
    <2>1. CASE kc'[k] # kc[k]
      <3>1. expected'[k] = IF env[k] # 0 THEN env[k] ELSE kc'[k]
        BY <1>2, <2>1 DEF OthersKeys
      <3>2. ~clean'
        BY <2>1 DEF OthersKeys
      <3> QED
        BY <2>1, <3>1, <3>2 DEF Owed
    <2>2. CASE kc'[k] = kc[k]
      <3>1. /\ expected'[k] = expected[k]
            /\ kc[k] = 0 => file'[k] = file[k] /\ enc'[k] = enc[k]
        BY <1>2, <2>2 DEF OthersKeys
      <3>2. Owed(k, expected[k]) /\ (clean => Loads(k, expected[k]))
        BY <1>2, <3>1 DEF KeysInv
      <3>3. Owed(k, expected[k])'
        <4> DEFINE v == expected[k]
        <4>1. Owed(k, v)
          BY <3>2
        <4> HIDE DEF v
        <4>2. \A w : w = v => Owed(k, w)'
          BY <1>0, <2>2, <3>1, <4>1, OwedKept DEF TypeOK
        <4> QED
          BY <3>1, <4>2 DEF v
      <3>4. clean' => clean
        BY DEF OthersKeys
      <3> QED
        BY <3>1, <3>2, <3>3, <3>4 DEF Loads
    <2> QED
      BY <2>1, <2>2
  <1> QED
    BY <1>1, <1>2 DEF KeysInv

LEMMA EndsImporting ==
  ASSUME ConfigTypeOK, Importing, NEW c \in Client, Ends(c)
  PROVE  Importing'
  BY DEF ConfigTypeOK, Importing, Ends, NoCommand

LEMMA FallBackImporting ==
  ASSUME ConfigTypeOK, Importing, NEW c \in Client, NEW v, FallBack(c, v)
  PROVE  Importing'
  BY DEF ConfigTypeOK, Importing, FallBack, NoCommand

(* A migrated key is not 0.                                                 *)
LEMMA StoredKeys ==
  ASSUME kc \in Keys, NEW c \in Content, NEW i \in Position, kc' = Stored(c, i)
  PROVE  /\ \A k \in Key : kc'[k] = kc[k] \/ kc'[k] # 0
         /\ kc'[KeyOrder[i]] = IF c[KeyOrder[i]] # 0 THEN c[KeyOrder[i]] ELSE kc[KeyOrder[i]]
         /\ \A k \in Key : k # KeyOrder[i] => kc'[k] = kc[k]
  BY Sets DEF Stored, Keys

LEMMA CommandsAreOthers ==
  ASSUME ConfigTypeOK, Importing, NEW c \in Client,
         \/ \E f \in Setting \union {IdentityKey} : Edit(c, f)
         \/ Write(c) \/ WriteTears(c) \/ CallFails(c)
         \/ ImportKey(c) \/ StoreImported(c) \/ StoreFails(c)
         \/ Migrate(c) \/ CliMigrateKey(c)
         \/ Encrypt(c) \/ WriteEncrypted(c) \/ Abandon(c)
  PROVE  Others
  <1> USE DEF stores, surroundings, daemon, counters, Others
  <1>0. cli \in [Client -> Command] /\ cli[c] \in Command /\ kc \in Keys
    BY DEF ConfigTypeOK
  <1>1. ASSUME NEW f \in Setting \union {IdentityKey}, Edit(c, f)
        PROVE  Others
    BY <1>0, <1>1 DEF Edit, Importing
  <1>2. CASE Write(c)
    <2>1. Importing'
      BY <1>0, <1>2, EndsImporting DEF Write, Becomes, Importing, Command
    <2> QED
      BY <1>2, <2>1 DEF Write
  <1>3. CASE WriteTears(c) \/ CallFails(c) \/ WriteEncrypted(c) \/ Abandon(c)
    BY <1>3, EndsImporting DEF WriteTears, CallFails, WriteEncrypted, Abandon
  <1>4. CASE ImportKey(c)
    <2>1. commands' # 0
      BY <1>4, NextNumber DEF ImportKey, ConfigTypeOK
    <2>2. CASE Available
      BY <1>0, <1>4, <2>1, <2>2 DEF ImportKey, Importing, NoCommand
    <2>3. CASE ~Available
      BY <1>4, <2>3, FallBackImporting DEF ImportKey
    <2> QED
      BY <2>2, <2>3
  <1>5. CASE StoreImported(c)
    <2>1. cli[c].value # 0
      BY <1>5 DEF StoreImported, Importing
    <2>2. \A k \in Key : kc'[k] = kc[k] \/ kc'[k] # 0
      BY <1>0, <1>5, <2>1 DEF StoreImported, Keys
    <2> QED
      BY <1>5, <2>2, EndsImporting DEF StoreImported
  <1>6. CASE StoreFails(c)
    BY <1>6, FallBackImporting DEF StoreFails
  <1>7. CASE Migrate(c) \/ Encrypt(c)
    BY <1>0, <1>7 DEF Migrate, Encrypt, NoCommand, Importing
  <1>8. CASE CliMigrateKey(c)
    <2>1. cli[c].at \in Position /\ cli[c].copy \in Content
      BY <1>0 DEF Command
    <2>2. \A k \in Key : kc'[k] = kc[k] \/ kc'[k] # 0
      BY <1>0, <1>8, <2>1, StoredKeys DEF CliMigrateKey
    <2>3. Importing'
      <3>1. CASE Ends(c)
        BY <3>1, EndsImporting
      <3>2. CASE cli' = [cli EXCEPT ![c].at = cli[c].at + 1]
        BY <1>0, <3>2 DEF Importing, Command
      <3> QED
        BY <1>8, <3>1, <3>2 DEF CliMigrateKey
    <2> QED
      BY <1>8, <2>2, <2>3 DEF CliMigrateKey
  <1> QED
    BY <1>1, <1>2, <1>3, <1>4, <1>5, <1>6, <1>7, <1>8

LEMMA OutsideIsOthers ==
  ASSUME Importing, RemoveKeys \/ KeychainChanges
  PROVE  Others
  BY DEF RemoveKeys, KeychainChanges, Others, Importing, stores, surroundings, daemon,
         counters

(***************************************************************************)
(* The steps of the daemon.                                                *)
(***************************************************************************)

(* What it leaves alone; and a daemon whose keys are not clean, or one that *)
(* stores nothing, changes nothing of what is owed.                         *)
DaemonFrame ==
  /\ UNCHANGED <<usable, env, passphrase, enc>>
  /\ \A k \in Key : kc'[k] = kc[k] \/ kc'[k] # 0
  /\ Importing'

LEMMA Unsettled ==
  ASSUME TypeOK, ConfigTypeOK', KeysInv, DaemonKeys, DaemonFrame,
         NEW k \in Key, expected'[k] # Unsure,
         \/ ~clean
         \/ kc'[k] = kc[k] /\ file'[k] = file[k] /\ ~(Loading /\ phase' = "loaded")
  PROVE  /\ expected'[k] = expected[k] /\ Owed(k, expected[k])'
         /\ clean => Loads(k, expected[k])
  <1>1. /\ expected'[k] = expected[k]
        /\ kc'[k] = kc[k] /\ file'[k] = file[k]
    BY DEF DaemonKeys
  <1>2. HasKeys(kc) => HasKeys(kc')
    BY DEF HasKeys, DaemonFrame
  <1> DEFINE v == expected[k]
  <1>3. Owed(k, v) /\ (clean => Loads(k, v))
    BY <1>1 DEF KeysInv
  <1> HIDE DEF v
  <1>4. \A w : w = v => Owed(k, w)'
    BY <1>1, <1>2, <1>3, OwedKept DEF TypeOK, DaemonFrame
  <1> QED
    BY <1>1, <1>3, <1>4 DEF v

LEMMA LoadFrame ==
  ASSUME ConfigTypeOK, Importing,
         Start \/ ReadKey \/ Decide \/ MigrateKey \/ BecomeUp \/ Stop
  PROVE  DaemonFrame /\ UNCHANGED <<file, torn>>
  <1> USE DEF stores, surroundings, daemon, counters, DaemonFrame, Importing
  <1>1. CASE MigrateKey
    BY <1>1, StoredKeys DEF MigrateKey, ConfigTypeOK
  <1>2. CASE Start \/ ReadKey \/ Decide \/ BecomeUp \/ Stop
    BY <1>2 DEF Start, ReadKey, Decide, BecomeUp, Stop
  <1> QED
    BY <1>1, <1>2

LEMMA StartKeys ==
  ASSUME TypeOK, ConfigTypeOK', KeysInv, Start, DaemonKeys
  PROVE  KeysInv'
  <1>1. DaemonFrame /\ ~clean
    BY LoadFrame DEF KeysInv, TypeOK, CleanLoad, Start
  <1>2. clean' => CleanLoad'
    <2>1. phase' = "reading" /\ at' = 1 /\ mem' = file /\ file' = file /\ usable' = usable
      BY DEF Start, stores, surroundings
    <2>2. clean' => usable
      BY DEF Start, DaemonKeys
    <2>3. \A i \in Position : ~(i < 1)
      BY Sets
    <2> QED
      BY <2>1, <2>2, <2>3 DEF CleanLoad, Loading
  <1>3. ASSUME NEW k \in Key, expected'[k] # Unsure
        PROVE  Owed(k, expected[k])' /\ Loads(k, expected[k])'
    BY <1>1, <1>3, Unsettled DEF Start, Loads
  <1> QED
    BY <1>1, <1>2, <1>3 DEF KeysInv, DaemonFrame

LEMMA ReadKeys ==
  ASSUME TypeOK, ConfigTypeOK', KeysInv, ReadKey, DaemonKeys
  PROVE  KeysInv'
  <1>1. DaemonFrame /\ UNCHANGED <<file, kc, mem>>
    BY LoadFrame DEF KeysInv, TypeOK, ReadKey, stores
  <1>2. ASSUME clean'
        PROVE  CleanLoad'
    <2>1. clean /\ CleanLoad /\ usable
      BY <1>2 DEF DaemonKeys, KeysInv, CleanLoad, Loading, ReadKey
    <2>2. \A i \in Position : i <= at => found'[KeyOrder[i]] = kc[KeyOrder[i]]
      BY <2>1, Sets DEF ReadKey, CleanLoad, TypeOK, ConfigTypeOK, Keys
    <2>3. CASE Last(at)
      <3>1. \A k \in Key : found'[k] = kc[k]
        BY <2>2, <2>3, Sets DEF Last
      <3> QED
        BY <1>1, <2>1, <2>3, <3>1 DEF CleanLoad, ReadKey, Loading, surroundings
    <2>4. CASE ~Last(at)
      BY <1>1, <2>1, <2>2, <2>4, Sets
      DEF CleanLoad, ReadKey, Loading, surroundings, TypeOK, ConfigTypeOK
    <2> QED
      BY <2>3, <2>4
  <1>3. ASSUME NEW k \in Key, expected'[k] # Unsure
        PROVE  Owed(k, expected[k])' /\ Loads(k, expected[k])'
    BY <1>1, <1>3, Unsettled DEF ReadKey, Loads
  <1> QED
    BY <1>1, <1>2, <1>3 DEF KeysInv, DaemonFrame

(* loadConfig() returns what it owes: c has it, but for the environment.    *)
Settled(k, v) ==
  IF kc[k] # 0 THEN v = kc[k]
  ELSE v = file[k] /\ (Decrypted[k] = 0 \/ HasKeys(kc))

LEMMA ReturnKeys ==
  ASSUME TypeOK, ConfigTypeOK', KeysInv, DaemonKeys, DaemonFrame, clean, Loading,
         UNCHANGED file, NEW c, Return(c), NEW k \in Key,
         Settled(k, c[k])', expected'[k] # Unsure,
         expected[k] # Unsure /\ env[k] = 0 => expected[k] = c[k]
  PROVE  Owed(k, expected[k])' /\ Loads(k, expected[k])'
  <1>1. phase' = "loaded" /\ mem'[k] = IF env[k] # 0 THEN env[k] ELSE c[k]
    BY OverlayKeys DEF Return
  <1>2. expected'[k] = IF expected[k] = Unsure THEN mem'[k] ELSE expected[k]
    BY <1>1 DEF DaemonKeys, Torn, TypeOK, ConfigTypeOK
  <1>3. expected[k] # Unsure /\ env[k] # 0 => expected[k] = env[k]
    BY DEF KeysInv, Owed
  <1>4. expected'[k] = mem'[k]
    BY <1>1, <1>2, <1>3
  <1> QED
    BY <1>1, <1>4 DEF Owed, Loads, Settled, DaemonFrame

LEMMA DecideKeys ==
  ASSUME TypeOK, ConfigTypeOK', KeysInv, Decide, DaemonKeys
  PROVE  KeysInv'
  <1>0. DaemonFrame /\ UNCHANGED <<file, torn, kc>>
    BY LoadFrame DEF KeysInv, TypeOK, Decide, stores
  <1>1. CASE ~clean
    <2>1. ~clean'
      BY <1>1 DEF DaemonKeys, Decide
    <2> QED
      BY <1>0, <1>1, <2>1, Unsettled DEF KeysInv, DaemonFrame
  <1>2. CASE clean
    <2> DEFINE c == IF HasKeys(found) THEN Overlay(mem, found) ELSE Overlay(mem, Decrypted)
    <2>1. /\ phase = "deciding" /\ at = 1 /\ Loading /\ usable
          /\ \A k \in Key : found[k] = kc[k] /\ mem[k] = file[k]
      BY <1>2 DEF KeysInv, CleanLoad, Loading, Decide
    <2>2. HasKeys(found) <=> HasKeys(kc)
      BY <2>1 DEF HasKeys
    <2>3. \A k \in Key : c[k] = IF HasKeys(kc) THEN IF kc[k] # 0 THEN kc[k] ELSE file[k]
                                ELSE IF Decrypted[k] # 0 THEN Decrypted[k] ELSE file[k]
      BY <2>1, <2>2, OverlayKeys
    <2>4. Decrypted' = Decrypted /\ (HasKeys(kc') <=> HasKeys(kc))
      BY <1>0 DEF Decrypted, DaemonFrame
    <2>5. \/ /\ ~HasKeys(kc) /\ phase' = "migrating" /\ mem' = c /\ UNCHANGED <<at, found>>
          \/ (HasKeys(kc) \/ ~HasKeys(c)) /\ Return(c)
      BY <2>1, <2>2 DEF Decide, Available
    <2> HIDE DEF c
    <2>6. ASSUME NEW k \in Key, expected[k] # Unsure, env[k] = 0
          PROVE  expected[k] = c[k]
      BY <2>3, <2>6 DEF KeysInv, Owed, HasKeys
    <2>7. CASE ~HasKeys(kc) /\ phase' = "migrating" /\ mem' = c /\ UNCHANGED <<at, found>>
      <3>1. CleanLoad'
        <4>1. \A k \in Key : mem'[k] = IF Decrypted'[k] # 0 THEN Decrypted'[k] ELSE file'[k]
          BY <1>0, <2>3, <2>4, <2>7
        <4>2. \A i \in Position : kc'[KeyOrder[i]] = 0 /\ ~(i < at')
          BY <1>0, <2>1, <2>7, Sets DEF HasKeys
        <4> QED
          BY <1>0, <2>1, <2>7, <4>1, <4>2 DEF CleanLoad, DaemonFrame
      <3>2. ASSUME NEW k \in Key, expected'[k] # Unsure
            PROVE  Owed(k, expected[k])' /\ Loads(k, expected[k])'
        <4>1. expected'[k] = expected[k] /\ Owed(k, expected[k])'
          BY <1>0, <2>7, <3>2, Unsettled
        <4> QED
          BY <1>0, <2>6, <2>7, <3>2, <4>1 DEF Loads, DaemonFrame
      <3> QED
        BY <1>0, <3>1, <3>2 DEF KeysInv, DaemonFrame
    <2>8. CASE (HasKeys(kc) \/ ~HasKeys(c)) /\ Return(c)
      <3>1. CleanLoad'
        BY <2>8 DEF CleanLoad, Loading, Return
      <3>2. ASSUME NEW k \in Key, expected'[k] # Unsure
            PROVE  Owed(k, expected[k])' /\ Loads(k, expected[k])'
        <4>1. IF kc[k] # 0 THEN c[k] = kc[k]
              ELSE c[k] = file[k] /\ (Decrypted[k] = 0 \/ HasKeys(kc))
          BY <2>3, <2>8 DEF HasKeys
        <4>2. \A w : w = c[k] => Settled(k, w)'
          BY <1>0, <2>4, <4>1 DEF Settled
        <4>3. PICK d : d = c
          OBVIOUS
        <4>4. Return(d)
          BY <2>8, <4>3
        <4>5. Settled(k, d[k])'
          BY <4>2, <4>3
        <4>6. expected[k] # Unsure /\ env[k] = 0 => expected[k] = d[k]
          BY <2>6, <4>3
        <4> QED
          BY <1>0, <1>2, <2>1, <3>2, <4>4, <4>5, <4>6, ReturnKeys
      <3> QED
        BY <1>0, <3>1, <3>2 DEF KeysInv, DaemonFrame
    <2> QED
      BY <2>5, <2>7, <2>8
  <1> QED
    BY <1>1, <1>2

LEMMA MigrateKeys ==
  ASSUME TypeOK, ConfigTypeOK', KeysInv, MigrateKey, DaemonKeys
  PROVE  KeysInv'
  <1>0. DaemonFrame /\ UNCHANGED <<file, torn>>
    BY LoadFrame DEF KeysInv, TypeOK
  <1>1. CASE ~clean
    <2>1. ~clean'
      BY <1>1 DEF DaemonKeys, MigrateKey
    <2> QED
      BY <1>0, <1>1, <2>1, Unsettled DEF KeysInv, DaemonFrame
  <1>2. CASE clean
    <2>1. /\ phase = "migrating" /\ Loading /\ usable /\ at \in Position
          /\ \A k \in Key : mem[k] = IF Decrypted[k] # 0 THEN Decrypted[k] ELSE file[k]
          /\ \A i \in Position : kc[KeyOrder[i]] = IF i < at THEN mem[KeyOrder[i]] ELSE 0
      BY <1>2 DEF KeysInv, CleanLoad, Loading, MigrateKey, TypeOK, ConfigTypeOK
    <2>2. /\ kc' = Stored(mem, at)
          /\ \/ Last(at) /\ Return(mem)
             \/ ~Last(at) /\ at' = at + 1 /\ UNCHANGED <<phase, found, mem>>
      BY <2>1 DEF MigrateKey
    <2>3. \A i \in Position : kc'[KeyOrder[i]] = IF i < at + 1 THEN mem[KeyOrder[i]] ELSE 0
      <3> SUFFICES ASSUME NEW i \in Position
                   PROVE  kc'[KeyOrder[i]] = IF i < at + 1 THEN mem[KeyOrder[i]] ELSE 0
        OBVIOUS
      <3>1. mem \in Content /\ kc \in Keys
        BY DEF TypeOK, ConfigTypeOK
      <3>2. /\ kc'[KeyOrder[at]] = IF mem[KeyOrder[at]] # 0 THEN mem[KeyOrder[at]]
                                   ELSE kc[KeyOrder[at]]
            /\ \A k \in Key : k # KeyOrder[at] => kc'[k] = kc[k]
        BY <2>1, <2>2, <3>1, StoredKeys
      <3>3. kc'[KeyOrder[at]] = mem[KeyOrder[at]]
        BY <2>1, <3>2, Sets
      <3> QED
        BY <2>1, <3>2, <3>3, Sets
    <2>4. Decrypted' = Decrypted /\ (HasKeys(kc) => HasKeys(kc'))
      BY <1>0 DEF Decrypted, DaemonFrame, HasKeys
    <2>5. ASSUME NEW k \in Key, expected[k] # Unsure, env[k] = 0
          PROVE  expected[k] = mem[k]
      BY <1>2, <2>1, <2>5 DEF KeysInv, Loads
    <2>6. CASE ~Last(at) /\ at' = at + 1 /\ UNCHANGED <<phase, found, mem>>
      <3>1. CleanLoad'
        BY <1>0, <2>1, <2>3, <2>4, <2>6 DEF CleanLoad, DaemonFrame, Loading
      <3>2. ASSUME NEW k \in Key, expected'[k] # Unsure
            PROVE  Owed(k, expected[k])' /\ Loads(k, expected[k])'
        <4>1. expected'[k] = expected[k] /\ expected[k] # Unsure
          BY <1>0, <1>2, <2>1, <2>6, <3>2 DEF DaemonKeys, Torn
        <4>2. kc'[k] = mem[k] \/ (kc'[k] = 0 /\ kc[k] = 0)
          <5>1. PICK i \in Position : KeyOrder[i] = k
            BY Sets
          <5> QED
            BY <2>1, <2>3, <5>1, Sets
        <4>3. Owed(k, expected[k])
          BY <4>1 DEF KeysInv
        <4>4. IF env[k] # 0 THEN expected[k] = env[k]
              ELSE IF kc'[k] # 0 THEN expected[k] = kc'[k]
              ELSE expected[k] = file[k] /\ (Decrypted[k] = 0 \/ HasKeys(kc'))
          BY <2>4, <2>5, <4>1, <4>2, <4>3 DEF Owed
        <4> QED
          BY <1>0, <2>1, <2>4, <2>5, <2>6, <4>1, <4>4 DEF Owed, Loads, DaemonFrame
      <3> QED
        BY <1>0, <3>1, <3>2 DEF KeysInv, DaemonFrame
    <2>7. CASE Last(at) /\ Return(mem)
      <3>1. CleanLoad'
        BY <2>7 DEF CleanLoad, Loading, Return
      <3>2. ASSUME NEW k \in Key, expected'[k] # Unsure
            PROVE  Owed(k, expected[k])' /\ Loads(k, expected[k])'
        <4>1. kc'[k] = mem[k]
          <5>1. PICK i \in Position : KeyOrder[i] = k
            BY Sets
          <5>2. i < at + 1
            BY <2>1, <2>7, Sets DEF Last
          <5> QED
            BY <2>3, <5>1, <5>2
        <4>2. IF kc'[k] # 0 THEN mem[k] = kc'[k]
              ELSE mem[k] = file[k] /\ Decrypted[k] = 0
          BY <2>1, <4>1
        <4>3. PICK d : d = mem
          OBVIOUS
        <4>4. Settled(k, d[k])'
          BY <1>0, <2>4, <4>2, <4>3 DEF Settled
        <4>5. expected[k] # Unsure /\ env[k] = 0 => expected[k] = d[k]
          BY <2>5, <4>3
        <4>6. Return(d)
          BY <2>7, <4>3
        <4> QED
          BY <1>0, <1>2, <2>1, <3>2, <4>4, <4>5, <4>6, ReturnKeys
      <3> QED
        BY <1>0, <3>1, <3>2 DEF KeysInv, DaemonFrame
    <2> QED
      BY <2>2, <2>6, <2>7
  <1> QED
    BY <1>1, <1>2

LEMMA UpKeys ==
  ASSUME TypeOK, ConfigTypeOK', KeysInv, BecomeUp, DaemonKeys
  PROVE  KeysInv'
  <1>0. DaemonFrame /\ UNCHANGED <<file, kc, mem>>
    BY LoadFrame DEF KeysInv, TypeOK, BecomeUp, stores
  <1>1. clean' = clean /\ CleanLoad'
    BY DEF BecomeUp, DaemonKeys, CleanLoad, Loading, TypeOK
  <1>2. ASSUME NEW k \in Key, expected'[k] # Unsure
        PROVE  Owed(k, expected[k])' /\ (clean' => Loads(k, expected[k])')
    BY <1>0, <1>1, <1>2, Unsettled DEF BecomeUp, Loads
  <1> QED
    BY <1>0, <1>1, <1>2 DEF KeysInv, DaemonFrame

LEMMA StopKeys ==
  ASSUME TypeOK, ConfigTypeOK', KeysInv, Stop, DaemonKeys
  PROVE  KeysInv'
  <1>0. DaemonFrame /\ UNCHANGED <<file, kc>>
    BY LoadFrame DEF KeysInv, TypeOK, Stop, stores
  <1>1. ~clean'
    BY DEF Stop, Down, DaemonKeys
  <1>2. ASSUME NEW k \in Key, expected'[k] # Unsure
        PROVE  Owed(k, expected[k])'
    BY <1>0, <1>2, Unsettled DEF Stop, Down
  <1> QED
    BY <1>0, <1>1, <1>2 DEF KeysInv, DaemonFrame

(* PUT /config/name writes the keys that the daemon has, which are those of *)
(* the stores if its keys are clean; if not, nothing more is expected.      *)
LEMMA PutKeys ==
  ASSUME TypeOK, ConfigTypeOK', KeysInv, NEW c \in Client, PutName(c), DaemonKeys
  PROVE  KeysInv'
  <1>0. DaemonFrame /\ UNCHANGED kc /\ phase = "up" /\ phase' = "up" /\ torn' = FALSE
    BY EndsImporting
    DEF KeysInv, TypeOK, PutName, WriteFile, DaemonFrame, surroundings
  <1>1. \A k \in Key : file'[k] = mem[k] /\ mem'[k] = mem[k]
    BY Sets DEF PutName, WriteFile, TypeOK, ConfigTypeOK, Content
  <1>2. clean' = clean /\ CleanLoad'
    BY <1>0 DEF DaemonKeys, CleanLoad, Loading, TypeOK
  <1>3. ASSUME NEW k \in Key, expected'[k] # Unsure
        PROVE  Owed(k, expected[k])' /\ (clean' => Loads(k, expected[k])')
    <2>1. CASE ~clean
      BY <1>0, <1>2, <1>3, <2>1, Unsettled
    <2>2. CASE clean
      <3>1. expected'[k] = expected[k]
        BY <1>0, <2>2 DEF DaemonKeys, Torn, Loading
      <3>2. Owed(k, expected[k]) /\ expected[k] = mem[k]
        BY <1>0, <1>3, <2>2, <3>1 DEF KeysInv, Loads
      <3>3. Decrypted' = Decrypted
        BY <1>0 DEF Decrypted, DaemonFrame
      <3> QED
        BY <1>0, <1>1, <3>1, <3>2, <3>3 DEF Owed, Loads, DaemonFrame
    <2> QED
      BY <2>1, <2>2
  <1> QED
    BY <1>0, <1>2, <1>3 DEF KeysInv, DaemonFrame

(* A daemon that dies in the middle of it takes the keys of the file along; *)
(* those that the keychain has are kept.                                    *)
LEMMA TearKeys ==
  ASSUME TypeOK, ConfigTypeOK', KeysInv, NEW c \in Client, PutNameTears(c), DaemonKeys
  PROVE  KeysInv'
  <1>0. DaemonFrame /\ UNCHANGED kc /\ phase = "up" /\ phase' = "down"
    BY EndsImporting
    DEF KeysInv, TypeOK, PutNameTears, DaemonFrame, surroundings, Down
  <1>1. torn' = TRUE /\ file' = Blank /\ (torn => file = Blank)
    BY DEF PutNameTears, TearFile, TypeOK, ConfigTypeOK
  <1>2. ~clean'
    BY <1>0 DEF DaemonKeys
  <1>3. ASSUME NEW k \in Key, expected'[k] # Unsure
        PROVE  Owed(k, expected[k])'
    <2>1. CASE ~clean
      BY <1>0, <1>3, <2>1, Unsettled
    <2>2. CASE clean
      <3>1. expected'[k] = expected[k] /\ (kc[k] = 0 => file' = file)
        BY <1>0, <1>1, <1>3, <2>2 DEF DaemonKeys, Torn, Loading, TypeOK, ConfigTypeOK
      <3>2. Owed(k, expected[k])
        BY <1>3, <3>1 DEF KeysInv
      <3>3. Decrypted' = Decrypted
        BY <1>0 DEF Decrypted, DaemonFrame
      <3> QED
        BY <1>0, <3>1, <3>2, <3>3 DEF Owed, DaemonFrame
    <2> QED
      BY <2>1, <2>2
  <1> QED
    BY <1>0, <1>2, <1>3 DEF KeysInv, DaemonFrame

LEMMA NextKeys == TypeOK /\ KeysInv /\ [Next]_vars => KeysInv'
  <1> SUFFICES ASSUME TypeOK, KeysInv, [Next]_vars PROVE KeysInv'
    OBVIOUS
  <1>0. ConfigTypeOK /\ ConfigTypeOK' /\ Importing
    BY NextTypeOK DEF TypeOK, KeysInv
  <1>1. CASE DaemonStep
    BY <1>0, <1>1, StartKeys, ReadKeys, DecideKeys, MigrateKeys, UpKeys, StopKeys, TearKeys
    DEF DaemonStep
  <1>2. CASE OtherStep
    <2>1. Others
      BY <1>0, <1>2, CommandsAreOthers, OutsideIsOthers DEF OtherStep
    <2> QED
      BY <1>0, <1>2, <2>1, OthersKeepKeys DEF OtherStep
  <1>3. ASSUME NEW c \in Client, Write(c), OthersKeys
        PROVE  KeysInv'
    BY <1>0, <1>3, CommandsAreOthers, OthersKeepKeys
  <1>4. ASSUME NEW c \in Client, PutName(c), DaemonKeys
        PROVE  KeysInv'
    BY <1>0, <1>4, PutKeys
  <1>5. CASE UNCHANGED vars
    <2>1. /\ UNCHANGED <<clean, expected, cli, phase, at, found, mem, file, kc, usable, env>>
          /\ Decrypted' = Decrypted
      BY <1>5 DEF vars, history, configVars, stores, surroundings, daemon, Decrypted
    <2>2. Importing' /\ (CleanLoad => CleanLoad')
      BY <1>0, <2>1 DEF Importing, CleanLoad, Loading
    <2>3. ASSUME NEW k \in Key, expected'[k] # Unsure
          PROVE  Owed(k, expected[k])' /\ (clean' => Loads(k, expected[k])')
      BY <2>1, <2>3 DEF KeysInv, Owed, Loads
    <2> QED
      BY <2>1, <2>2, <2>3 DEF KeysInv
  <1> QED
    BY <1>1, <1>2, <1>3, <1>4, <1>5 DEF Next

LEMMA KeysInvariance == Spec => [](TypeOK /\ KeysInv)
  BY TypeCorrect, InitKeys, NextKeys, PTL DEF Spec

(* Every clean start after the first comes up with the keys the record      *)
(* expects, whatever the commands did in between, unless one edited them.   *)
THEOREM KeysAgree == Spec => []StartsAgree
  <1>1. KeysInv => StartsAgree
    BY DEF KeysInv, Loads, StartsAgree
  <1> QED
    BY <1>1, KeysInvariance, PTL

(* Who writes to the keychain.                                              *)
LEMMA KeychainWriters ==
  ASSUME [Next]_vars
  PROVE  \/ UNCHANGED kc
         \/ MigrateKey
         \/ \E c \in Client : StoreImported(c) \/ CliMigrateKey(c)
  BY DEF Next, DaemonStep, OtherStep, Start, ReadKey, Decide, BecomeUp, Stop, PutNameTears,
         RemoveKeys, KeychainChanges, Edit, Write, WriteTears, PutName, CallFails, ImportKey,
         StoreFails, Migrate, Encrypt, WriteEncrypted, Abandon, stores, vars, configVars

(* A clean start writes to the keychain only where it has found, and there  *)
(* still is, no key.                                                        *)
LEMMA StepKeepsKeychain ==
  ASSUME TypeOK, KeysInv, [Next]_vars,
         NEW k \in Key, kc[k] # 0, kc'[k] # kc[k], phase = "migrating", UNCHANGED cli
  PROVE  ~clean
  <1>0. cli \in [Client -> Command] /\ mem \in Content /\ kc \in Keys /\ at \in Position
    BY DEF TypeOK, ConfigTypeOK
  <1>1. CASE MigrateKey
    <2>1. kc' = Stored(mem, at)
      BY <1>1 DEF MigrateKey
    <2>2. k = KeyOrder[at]
      BY <1>0, <2>1, StoredKeys
    <2>3. clean => kc[KeyOrder[at]] = 0
      BY <1>0, Sets DEF KeysInv, CleanLoad
    <2> QED
      BY <2>2, <2>3
  <1>2. ASSUME NEW c \in Client, StoreImported(c)
        PROVE  FALSE
    BY <1>0, <1>2 DEF StoreImported, Ends, NoCommand
  <1>3. ASSUME NEW c \in Client, CliMigrateKey(c)
        PROVE  FALSE
    <2>1. CASE Ends(c)
      BY <1>0, <1>3, <2>1 DEF CliMigrateKey, Ends, NoCommand
    <2>2. CASE cli' = [cli EXCEPT ![c].at = cli[c].at + 1]
      <3>1. cli[c].at \in Position
        BY <1>0 DEF Command
      <3>2. cli'[c].at = cli[c].at + 1
        BY <1>0, <2>2 DEF Command
      <3> QED
        BY <3>1, <3>2, Sets
    <2>3. UNCHANGED kc \/ Ends(c) \/ cli' = [cli EXCEPT ![c].at = cli[c].at + 1]
      BY <1>3 DEF CliMigrateKey
    <2> QED
      BY <2>1, <2>2, <2>3
  <1> QED
    BY <1>1, <1>2, <1>3, KeychainWriters

(* A start that could use the keychain while nobody else changed a key      *)
(* never replaces a key that the keychain has.                              *)
THEOREM CleanStartKeepsKeychain == Spec => KeychainKept
  <1>1. TypeOK /\ KeysInv /\ [Next]_vars =>
          [\A k \in Key :
             kc[k] # 0 /\ kc'[k] # kc[k] /\ phase = "migrating" /\ UNCHANGED cli
               => ~clean]_vars
    BY StepKeepsKeychain
  <1> QED
    BY <1>1, KeysInvariance, PTL DEF Spec, KeychainKept

=============================================================================
