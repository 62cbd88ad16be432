----------------------- MODULE ConfigurationHistory ------------------------
(***************************************************************************)
(* The configuration with a record of what its users may rely on: the keys *)
(* the next start ought to load, and the settings that an edit has         *)
(* confirmed.                                                              *)
(***************************************************************************)
EXTENDS Configuration

VARIABLES
  clean,       \* the daemon's keys: was nothing in their way since its start
  expected,    \* the key that a clean start loads, or Unsure
  confirmed,   \* the last edit of each setting that was written, or 0
  quiet        \* was that edit made with no daemon and no other command about

history == <<clean, expected, confirmed, quiet>>
vars == <<configVars, history>>

Unsure == -1

Loading == phase \in {"reading", "deciding", "migrating"}

TypeOK ==
  /\ ConfigTypeOK
  /\ clean \in BOOLEAN
  /\ expected \in [Key -> Value \union {Unsure}]
  /\ confirmed \in [Setting -> Value]
  /\ quiet \in [Setting -> BOOLEAN]

Init ==
  /\ ConfigInit
  /\ clean = FALSE
  /\ expected = [k \in Key |-> Unsure]
  /\ confirmed = [s \in Setting |-> 0]
  /\ quiet = [s \in Setting |-> FALSE]

----------------------------------------------------------------------------

Torn == torn' /\ ~torn

(* A step of the daemon. Its first clean load says what the next ones owe;  *)
(* a daemon whose keys are not clean may write what it ought not to; and a  *)
(* file that is torn loses the keys which the keychain does not have.       *)
DaemonKeys ==
  /\ clean' = IF phase = "down" THEN usable /\ phase' = "reading"
              ELSE clean /\ phase' # "down"
  /\ expected' = [k \in Key |->
       IF \/ ~clean /\ (kc'[k] # kc[k] \/ file'[k] # file[k])
          \/ Torn /\ kc[k] = 0
       THEN Unsure
       ELSE IF clean /\ Loading /\ phase' = "loaded" /\ expected[k] = Unsure
       THEN mem'[k] ELSE expected[k]]

(* A step of a command or of the user. A key that is put into the keychain  *)
(* while no daemon is loading is what the next start loads, unless the      *)
(* environment has another one.                                             *)
OthersKeys ==
  /\ clean' = /\ clean
              /\ <<kc', enc', KeysOf(file')>> = <<kc, enc, KeysOf(file)>>
              /\ Loading => usable' = usable
  /\ expected' = [k \in Key |->
       IF kc'[k] # kc[k]
       THEN IF Loading THEN Unsure ELSE IF env[k] # 0 THEN env[k] ELSE kc'[k]
       ELSE IF kc[k] = 0 /\ (file'[k] # file[k] \/ enc'[k] # enc[k])
       THEN Unsure ELSE expected[k]]

SettingsKept ==
  IF Torn THEN confirmed' = [s \in Setting |-> 0] /\ UNCHANGED quiet
          ELSE UNCHANGED <<confirmed, quiet>>

(* Write(c) confirms an edit. *)
Confirmed(c) ==
  IF cli[c].field \in Setting
  THEN /\ confirmed' = [confirmed EXCEPT ![cli[c].field] = cli[c].value]
       /\ quiet' = [quiet EXCEPT ![cli[c].field] =
                      phase = "down" /\ \A other \in Client \ {c} : Idle(other)]
  ELSE UNCHANGED <<confirmed, quiet>>

(* PUT /config/name confirms the name, once more or anew.                   *)
Renamed(c) ==
  /\ confirmed' = [confirmed EXCEPT !["name"] = cli[c].value]
  /\ quiet' = [quiet EXCEPT !["name"] = @ /\ confirmed["name"] = cli[c].value]

DaemonStep ==
  /\ \/ Start \/ ReadKey \/ Decide \/ MigrateKey \/ BecomeUp \/ Stop
     \/ \E c \in Client : PutNameTears(c)
  /\ DaemonKeys /\ SettingsKept

OtherStep ==
  /\ \/ RemoveKeys \/ KeychainChanges
     \/ \E c \in Client :
          \/ \E f \in Setting \union {IdentityKey} : Edit(c, f)
          \/ WriteTears(c) \/ CallFails(c)
          \/ ImportKey(c) \/ StoreImported(c) \/ StoreFails(c)
          \/ Migrate(c) \/ CliMigrateKey(c)
          \/ Encrypt(c) \/ WriteEncrypted(c) \/ Abandon(c)
  /\ OthersKeys /\ SettingsKept

Next ==
  \/ DaemonStep
  \/ OtherStep
  \/ \E c \in Client : Write(c) /\ OthersKeys /\ Confirmed(c)
  \/ \E c \in Client : PutName(c) /\ DaemonKeys /\ Renamed(c)

Spec == Init /\ [][Next]_vars

----------------------------------------------------------------------------

(* Once a clean start has come up - the keychain could be used, and nobody  *)
(* else changed a key meanwhile - every later clean one comes up with the   *)
(* same keys, until somebody edits a key or a torn file loses it: neither   *)
(* the config that PUT /config/name writes back, nor the encrypted file and *)
(* starts that are killed in between change one. A key imported into the    *)
(* keychain is the one it comes up with. It says nothing of what came       *)
(* before that first start: one that is killed between two keys of its      *)
(* migration has left a part, which the next takes for the whole            *)
(* (daemon/index.ts:81-196, 715-719, cli/index.ts:938-1005, 1141-1212).     *)
StartsAgree ==
  clean /\ phase \in {"loaded", "up"} =>
    \A k \in Key : expected[k] \in {Unsure, mem[k]}

(* A start during which the keychain can be used, and nobody else changes a *)
(* key, replaces no key that the keychain has: it migrates into an empty    *)
(* one only, also after starts that were killed half way. A key that is     *)
(* imported while a start is migrating is not covered, and may be replaced  *)
(* (daemon/index.ts:97-176).                                                *)
KeychainKept ==
  [][\A k \in Key :
       kc[k] # 0 /\ kc'[k] # kc[k] /\ phase = "migrating" /\ UNCHANGED cli => ~clean]_vars

(* An edit of a setting made while no daemon ran and no other command was   *)
(* under way is in the file, and in every daemon started since, until the   *)
(* next edit of that setting or a crash in the middle of a write: whoever   *)
(* writes the whole file has read it since (cli/index.ts:770-836).          *)
QuietEditSurvives ==
  \A s \in Setting :
    quiet[s] /\ confirmed[s] # 0 =>
      /\ file[s] = confirmed[s]
      /\ phase # "down" => mem[s] = confirmed[s]

=============================================================================
