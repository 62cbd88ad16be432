--------------------------- MODULE Configuration ---------------------------
(***************************************************************************)
(* Where the settings and the keys of a node are kept, and who writes      *)
(* them: config.json, config.encrypted.json, the OS keychain, and the copy *)
(* in the memory of the daemon. loadConfig() and PUT /config/name of       *)
(* daemon/index.ts and the `bsv-p2p config` commands of cli/index.ts read  *)
(* and write them without a lock.                                          *)
(*                                                                         *)
(* A value is the number of the command that made it; 0 is a field that is *)
(* absent or has its default, so merging the defaults in changes nothing.  *)
(* A file that cannot be parsed is all 0, and torn.                        *)
(***************************************************************************)
EXTENDS Integers, Sequences

CONSTANTS
  Client,       \* CLI commands that may run at the same time
  KeyOrder,     \* the keys, in the order in which they are read and migrated
  PrivateKey,   \* the one that import-key stores
  IdentityKey,  \* the one that config set --bsv-key stores
  MaxValue,     \* bound: the last command
  MaxCrashes,   \* bound: processes that die in the middle of a write
  MaxFlips      \* bound: times the keychain is locked or unlocked

Key == {KeyOrder[i] : i \in DOMAIN KeyOrder}
Setting == {"port", "name"}
Field == Setting \union Key
Value == 0 .. MaxValue

ASSUME ConfigurationAssumption ==
  /\ KeyOrder \in Seq(STRING)
  /\ KeyOrder # <<>>
  /\ \A i, j \in DOMAIN KeyOrder : KeyOrder[i] = KeyOrder[j] => i = j
  /\ {PrivateKey, IdentityKey} \subseteq Key
  /\ Setting \intersect Key = {}
  /\ MaxValue \in Nat /\ MaxValue >= 2
  /\ MaxCrashes \in Nat
  /\ MaxFlips \in Nat

VARIABLES
  file,        \* config.json
  torn,        \* is config.json cut off in the middle
  enc,         \* the keys in config.encrypted.json
  kc,          \* the keys in the keychain
  usable,      \* can the keychain be used
  env,         \* the keys in the daemon's environment
  passphrase,  \* does the environment hold the passphrase of enc
  phase,       \* of the daemon: "down", loadConfig()'s "reading", "deciding",
               \* "migrating", then "loaded" and, with its API, "up"
  at,          \* the key loadConfig() is at
  found,       \* what it has found in the keychain
  mem,         \* the daemon's config
  cli,         \* the commands under way
  tip,         \* has a migration said that the keys can be removed from the file
  commands, crashes, flips   \* what the bounds count

stores == <<file, torn, enc, kc>>
surroundings == <<usable, env, passphrase>>
daemon == <<phase, at, found, mem>>
counters == <<commands, crashes, flips>>
configVars == <<stores, surroundings, daemon, cli, tip, counters>>

Content == [Field -> Value]
Keys == [Key -> Value]
Blank == [f \in Field |-> 0]
NoKeys == [k \in Key |-> 0]
KeysOf(c) == [k \in Key |-> c[k]]

(* c with the keys of ks in place of its own, where ks has one. *)
Overlay(c, ks) == [f \in Field |-> IF f \in Key /\ ks[f] # 0 THEN ks[f] ELSE c[f]]

Step == {"idle", "setting", "renaming", "calling", "importing", "migrating", "encrypting"}
Position == 1 .. Len(KeyOrder)

(* What a command holds: the copy it read, and the edit it makes. *)
Command == [step : Step, copy : Content, field : Field, value : Value, at : Position]
NoCommand == [step |-> "idle", copy |-> Blank, field |-> "name", value |-> 0, at |-> 1]

ConfigTypeOK ==
  /\ file \in Content
  /\ torn \in BOOLEAN /\ (torn => file = Blank)
  /\ enc \in Keys /\ kc \in Keys /\ env \in Keys
  /\ usable \in BOOLEAN /\ passphrase \in BOOLEAN /\ tip \in BOOLEAN
  /\ phase \in {"down", "reading", "deciding", "migrating", "loaded", "up"}
  /\ at \in Position
  /\ found \in Keys
  /\ mem \in Content
  /\ cli \in [Client -> Command]
  /\ commands \in Value /\ crashes \in 0 .. MaxCrashes /\ flips \in 0 .. MaxFlips

(* A node that was set up before: keys 1 in the file or in the encrypted    *)
(* file that was made of it, and perhaps one, 2, in the environment.        *)
ConfigInit ==
  /\ file \in {Blank, Overlay(Blank, [k \in Key |-> 1])}
  /\ torn = FALSE
  /\ enc = [k \in Key |-> 1]
  /\ kc = NoKeys
  /\ usable \in BOOLEAN
  /\ env \in {NoKeys, [NoKeys EXCEPT ![IdentityKey] = 2]}
  /\ passphrase \in BOOLEAN
  /\ phase = "down" /\ at = 1 /\ found = NoKeys /\ mem = Blank
  /\ cli = [c \in Client |-> NoCommand]
  /\ tip = FALSE
  /\ commands = 2 /\ crashes = 0 /\ flips = 0

----------------------------------------------------------------------------
(* loadConfig().                                                            *)

(* The file is read in one go; one that cannot be parsed gives the defaults. *)
Start ==
  /\ phase = "down"
  /\ phase' = "reading" /\ at' = 1 /\ found' = NoKeys
  /\ mem' = file
  /\ UNCHANGED <<stores, surroundings, cli, tip, counters>>

Last(i) == i = Len(KeyOrder)

(* Mutant of ReadKey: it goes on past the last key.                         *)
ReadKeyOn ==
  /\ phase = "reading"
  /\ found' = [found EXCEPT ![KeyOrder[at]] = IF usable THEN kc[KeyOrder[at]] ELSE 0]
  /\ at' = at + 1 /\ phase' = phase
  /\ UNCHANGED <<stores, surroundings, mem, cli, tip, counters>>

(* getPrivateKey(), getPublicKey(), getIdentityKey(): a keychain that fails *)
(* is a key that is not there.                                              *)
ReadKey ==
  /\ phase = "reading"
  /\ found' = [found EXCEPT ![KeyOrder[at]] = IF usable THEN kc[KeyOrder[at]] ELSE 0]
  /\ IF Last(at) THEN phase' = "deciding" /\ at' = 1
                 ELSE phase' = phase /\ at' = at + 1
  /\ UNCHANGED <<stores, surroundings, mem, cli, tip, counters>>

HasKeys(c) == \E k \in Key : c[k] # 0

(* loadConfig() returns: the environment has the last word. *)
Return(c) == phase' = "loaded" /\ mem' = Overlay(c, env) /\ at' = 1 /\ found' = NoKeys

(* isAvailable() writes, reads and deletes a test entry. *)
Available == usable

(* decryptConfig(): what encryptConfig() was given, with its passphrase; an *)
(* error, which leaves the keys of the plaintext, with any other.           *)
Decrypted == IF passphrase THEN enc ELSE NoKeys

(* Mutant of Decide: the keys of the file go before the others.             *)
DecideFileFirst ==
  /\ phase = "deciding"
  /\ LET c == IF HasKeys(found) THEN Overlay(Overlay(mem, found), mem)
              ELSE Overlay(Overlay(mem, Decrypted), mem)
     IN  IF ~HasKeys(found) /\ HasKeys(c) /\ Available
         THEN phase' = "migrating" /\ mem' = c /\ UNCHANGED <<at, found>>
         ELSE Return(c)
  /\ UNCHANGED <<stores, surroundings, cli, tip, counters>>

(* Mutant of Decide: keys of the file are migrated whatever the keychain has. *)
DecideMigrates ==
  /\ phase = "deciding"
  /\ IF HasKeys(mem) /\ Available
     THEN phase' = "migrating" /\ UNCHANGED <<at, found, mem>>
     ELSE Return(Overlay(mem, found))
  /\ UNCHANGED <<stores, surroundings, cli, tip, counters>>

(* Keys of the keychain, or else of the encrypted file, go before those of  *)
(* the file; the latter two are migrated if the keychain can be used.       *)
Decide ==
  /\ phase = "deciding"
  /\ LET c == IF HasKeys(found) THEN Overlay(mem, found)
              ELSE Overlay(mem, Decrypted)
     IN  IF ~HasKeys(found) /\ HasKeys(c) /\ Available
         THEN phase' = "migrating" /\ mem' = c /\ UNCHANGED <<at, found>>
         ELSE Return(c)
  /\ UNCHANGED <<stores, surroundings, cli, tip, counters>>

(* setPrivateKey() and so on: a key that is absent is passed over. *)
Stored(c, i) == IF c[KeyOrder[i]] # 0
                THEN [kc EXCEPT ![KeyOrder[i]] = c[KeyOrder[i]]] ELSE kc

(* One key goes to the keychain; a failure leaves the rest where they are. *)
MigrateKey ==
  /\ phase = "migrating"
  /\ IF ~usable /\ mem[KeyOrder[at]] # 0
     THEN Return(mem) /\ UNCHANGED <<kc, tip>>
     ELSE /\ kc' = Stored(mem, at)
          /\ IF Last(at) THEN Return(mem) /\ tip' = TRUE
                         ELSE at' = at + 1 /\ UNCHANGED <<phase, found, mem, tip>>
  /\ UNCHANGED <<file, torn, enc, surroundings, cli, counters>>

(* main() has started the node; the CLI finds the daemon and its API.       *)
BecomeUp ==
  /\ phase = "loaded"
  /\ phase' = "up"
  /\ UNCHANGED <<stores, surroundings, at, found, mem, cli, tip, counters>>

Down == phase' = "down" /\ at' = 1 /\ found' = NoKeys /\ mem' = Blank

(* Stopped, killed, or not able to start. *)
Stop ==
  /\ phase # "down"
  /\ Down
  /\ UNCHANGED <<stores, surroundings, cli, tip, counters>>

----------------------------------------------------------------------------
(* The CLI.                                                                 *)

Idle(c) == cli[c].step = "idle"

(* A new command gets the next number. *)
Begins(c) ==
  /\ Idle(c)
  /\ commands < MaxValue
  /\ commands' = commands + 1

Ends(c) == cli' = [cli EXCEPT ![c] = NoCommand]
Becomes(c, s) == cli' = [cli EXCEPT ![c].step = s]

(* A file written by writeFileSync(), which truncates it first.             *)
WriteFile(content) == file' = content /\ torn' = FALSE
TearFile ==
  /\ crashes < MaxCrashes
  /\ crashes' = crashes + 1
  /\ file' = Blank /\ torn' = TRUE

(* config set --port, config set --bsv-key, config name: the file is read;  *)
(* one that is torn throws. config name has looked for the daemon before.   *)
Edit(c, f) ==
  /\ Begins(c)
  /\ ~torn
  /\ f \in Setting \union {IdentityKey}
  /\ cli' = [cli EXCEPT ![c] =
       [step |-> IF f = "name" /\ phase = "up" THEN "renaming" ELSE "setting",
        copy |-> file, field |-> f, value |-> commands', at |-> 1]]
  /\ UNCHANGED <<stores, surroundings, daemon, tip, crashes, flips>>

Edited(c) == [cli[c].copy EXCEPT ![cli[c].field] = cli[c].value]

(* The copy is written back with the edit in it; config name goes on to the *)
(* daemon it has found.                                                     *)
Write(c) ==
  /\ cli[c].step \in {"setting", "renaming"}
  /\ WriteFile(Edited(c))
  /\ IF cli[c].step = "renaming" THEN Becomes(c, "calling") ELSE Ends(c)
  /\ UNCHANGED <<enc, kc, surroundings, daemon, tip, counters>>

WriteTears(c) ==
  /\ cli[c].step \in {"setting", "renaming"}
  /\ TearFile
  /\ Ends(c)
  /\ UNCHANGED <<enc, kc, surroundings, daemon, tip, commands, flips>>

(* Mutant of PutName: the name is written into a config of the defaults.    *)
PutNameAlone(c) ==
  /\ cli[c].step = "calling"
  /\ phase = "up"
  /\ mem' = [mem EXCEPT !["name"] = cli[c].value]
  /\ WriteFile([Blank EXCEPT !["name"] = cli[c].value])
  /\ Ends(c)
  /\ UNCHANGED <<enc, kc, surroundings, phase, at, found, tip, counters>>

(* PUT /config/name: the daemon names itself and writes all it has.         *)
PutName(c) ==
  /\ cli[c].step = "calling"
  /\ phase = "up"
  /\ mem' = [mem EXCEPT !["name"] = cli[c].value]
  /\ WriteFile(mem')
  /\ Ends(c)
  /\ UNCHANGED <<enc, kc, surroundings, phase, at, found, tip, counters>>

PutNameTears(c) ==
  /\ cli[c].step = "calling"
  /\ phase = "up"
  /\ TearFile
  /\ Down
  /\ Ends(c)
  /\ UNCHANGED <<enc, kc, surroundings, tip, commands, flips>>

(* The daemon is gone: the command says that the file has been updated.     *)
CallFails(c) ==
  /\ cli[c].step = "calling"
  /\ phase # "up"
  /\ Ends(c)
  /\ UNCHANGED <<stores, surroundings, daemon, tip, counters>>

(* The way of import-key without a keychain: config.json, if it can be read. *)
FallBack(c, v) ==
  cli' = [cli EXCEPT ![c] =
    IF torn THEN NoCommand
    ELSE [step |-> "setting", copy |-> file, field |-> PrivateKey, value |-> v, at |-> 1]]

(* config import-key: is the keychain available?                            *)
ImportKey(c) ==
  /\ Begins(c)
  /\ IF Available
     THEN cli' = [cli EXCEPT ![c] = [NoCommand EXCEPT !.step = "importing", !.value = commands']]
     ELSE FallBack(c, commands')
  /\ UNCHANGED <<stores, surroundings, daemon, tip, crashes, flips>>

StoreImported(c) ==
  /\ cli[c].step = "importing"
  /\ usable
  /\ kc' = [kc EXCEPT ![PrivateKey] = cli[c].value]
  /\ Ends(c)
  /\ UNCHANGED <<file, torn, enc, surroundings, daemon, tip, counters>>

StoreFails(c) ==
  /\ cli[c].step = "importing"
  /\ ~usable
  /\ FallBack(c, cli[c].value)
  /\ UNCHANGED <<stores, surroundings, daemon, tip, counters>>

(* config migrate-to-keychain: the keys of the file, one after the other.   *)
Migrate(c) ==
  /\ Begins(c)
  /\ ~torn
  /\ HasKeys(file)
  /\ Available
  /\ cli' = [cli EXCEPT ![c] = [NoCommand EXCEPT !.step = "migrating", !.copy = file]]
  /\ UNCHANGED <<stores, surroundings, daemon, tip, crashes, flips>>

CliMigrateKey(c) ==
  /\ cli[c].step = "migrating"
  /\ LET i == cli[c].at IN
     IF ~usable /\ cli[c].copy[KeyOrder[i]] # 0
     THEN Ends(c) /\ UNCHANGED <<kc, tip>>
     ELSE /\ kc' = Stored(cli[c].copy, i)
          /\ IF Last(i) THEN Ends(c) /\ tip' = TRUE
                        ELSE cli' = [cli EXCEPT ![c].at = i + 1] /\ UNCHANGED tip
  /\ UNCHANGED <<file, torn, enc, surroundings, daemon, counters>>

(* config encrypt: the file is read, the passphrase asked for, twice, ...   *)
Encrypt(c) ==
  /\ Begins(c)
  /\ cli' = [cli EXCEPT ![c] = [NoCommand EXCEPT !.step = "encrypting", !.copy = file]]
  /\ UNCHANGED <<stores, surroundings, daemon, tip, crashes, flips>>

(* encryptConfig(), as far as decryptConfig() gives it back.                *)
Encrypted(c) == KeysOf(cli[c].copy)

(* ... and what was read is written, encrypted.                             *)
WriteEncrypted(c) ==
  /\ cli[c].step = "encrypting"
  /\ enc' = Encrypted(c)
  /\ Ends(c)
  /\ UNCHANGED <<file, torn, kc, surroundings, daemon, tip, counters>>

(* A passphrase that is too short or not the same; or the command is killed. *)
Abandon(c) ==
  /\ ~Idle(c)
  /\ Ends(c)
  /\ UNCHANGED <<stores, surroundings, daemon, tip, counters>>

----------------------------------------------------------------------------
(* Outside: the user, who follows the tip, and the keychain.                *)

RemoveKeys ==
  /\ tip /\ ~torn
  /\ file' = [f \in Field |-> IF f \in Key THEN 0 ELSE file[f]]
  /\ UNCHANGED <<torn, enc, kc, surroundings, daemon, cli, tip, counters>>

KeychainChanges ==
  /\ flips < MaxFlips
  /\ flips' = flips + 1
  /\ usable' = ~usable
  /\ UNCHANGED <<stores, env, passphrase, daemon, cli, tip, commands, crashes>>

=============================================================================
