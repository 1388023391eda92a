----------------------------- MODULE Certificates -----------------------------
(***************************************************************************)
(* The client certificate of an MQTT connection (api/mqtt_client.py): it   *)
(* is downloaded on the event loop, written as two PEM files by the        *)
(* executor thread and loaded from them, and unlinked when the client is   *)
(* cleaned up (mqtt_manager.py, __init__.py).                              *)
(*                                                                         *)
(* The two paths are the same for every client.  Within one config entry   *)
(* MqttLifecycle shows that attempts follow one another; here the clients  *)
(* of several entries, and threads that a stop has left behind, meet at    *)
(* the files.  An entry is a running manager: how it comes to start one    *)
(* attempt after another is in MqttLifecycle.                              *)
(***************************************************************************)
EXTENDS FiniteSets

CONSTANTS Entries,  \* config entries, each with an account of its own
          Clients,  \* bound: BluettiMqttClient objects that exist at a time
          Nothing   \* no file, no entry

ASSUME CertificatesAssumption == Nothing \notin Clients \cup Entries

VARIABLES running,    \* entries whose manager is not stopping
          entry,      \* client -> the entry that made it, Nothing if it is free
          held,       \* client -> its manager's _mqtt_client is this one
          at,         \* client -> how far its attempt has come
          paths,      \* client -> _pem_cert and _pem_key are set
          cert,       \* whose certificate is in bluetti_ha_cert.pem
          key,        \* whose key is in bluetti_ha_key.pem
          abandoned   \* a stop has left behind a thread that yet writes a file

files == <<cert, key>>
vars == <<running, entry, held, at, paths, files, abandoned>>

\* The client of a file whose client object is gone.
Gone == "gone"

\* "prepare" is async_prepare, the next ones are connect_blocking, in the executor.  With
\* "opens_..." the thread has read the path of a file, or of both, and not yet opened it.
InThread == {"queued", "named", "opens_cert", "certed", "opens_key", "keyed", "opens_both", "loaded"}
InProgress == {"prepare"} \cup InThread
Stages == InProgress \cup {"free", "online", "failed"}

\* From here a thread goes on to write a file though its client has been cleaned up.
Unstoppable == {"queued", "opens_cert", "opens_key"}

Free(c) == at[c] = "free"
Holds(e, c) == entry[c] = e /\ held[c]

------------------------------------------------------------------------------
(* Mutated forms, each standing for a plausible bug in the operator it       *)
(* replaces when the mutation runs are made.                                 *)

KeptAtFailure(e) == \E c \in Clients : Holds(e, c) /\ paths[c] /\ at[c] # "failed"
Impatient(e) == \A c \in Clients : Holds(e, c) => at[c] # "online"

------------------------------------------------------------------------------
(* Pieces of the handlers.                                                   *)

\* cleanup_pem_files of the client that is held: it has paths, so the files go, whoever
\* wrote them.
Unlinks(e) == \E c \in Clients : Holds(e, c) /\ paths[c]

\* The clients that managers hold after that of e has dropped its own, which is gone
\* unless the executor has it: then it stays until its thread ends.
StillHeld(e, c) == held[c] /\ entry[c] # e
Dropped(e, c) == Holds(e, c) /\ at[c] \notin InThread

\* _cleanup_mqtt_client of e, and fresh, if any, takes the place of the client dropped.
Cleanup(e, fresh) ==
    /\ entry' = [c \in Clients |-> IF c \in fresh THEN e
                                   ELSE IF Dropped(e, c) THEN Nothing ELSE entry[c]]
    /\ held' = [c \in Clients |-> c \in fresh \/ StillHeld(e, c)]
    /\ at' = [c \in Clients |-> IF c \in fresh THEN "prepare"
                                ELSE IF Dropped(e, c) THEN "free" ELSE at[c]]
    /\ paths' = [c \in Clients |-> paths[c] /\ ~Holds(e, c)]
    /\ cert' = IF Unlinks(e) THEN Nothing ELSE cert
    /\ key' = IF Unlinks(e) THEN Nothing ELSE key

\* No attempt of e is in progress and it has no connection: __init__ awaits the first
\* attempt and then there is one reconnect task.
MayAttempt(e) == \A c \in Clients : Holds(e, c) => at[c] = "failed"

Moves(c, stage) == at' = [at EXCEPT ![c] = stage]

------------------------------------------------------------------------------
Init ==
    /\ running = {}
    /\ entry = [c \in Clients |-> Nothing] /\ held = [c \in Clients |-> FALSE]
    /\ at = [c \in Clients |-> "free"] /\ paths = [c \in Clients |-> FALSE]
    /\ cert = Nothing /\ key = Nothing /\ abandoned = FALSE

\* async_setup_entry, also of a reload.
SetUp(e) ==
    /\ e \notin running
    /\ running' = running \cup {e}
    /\ UNCHANGED <<entry, held, at, paths, files, abandoned>>

\* async_start: the previous client is cleaned up, a new one prepares.
Attempt(e, c) ==
    /\ e \in running /\ MayAttempt(e) /\ Free(c)
    /\ Cleanup(e, {c})
    /\ UNCHANGED <<running, abandoned>>

\* The reconnect loop's handler, or the refresh that finds the link lost.
CleansUp(e) ==
    /\ \E c \in Clients : Holds(e, c) /\ at[c] = "failed"
    /\ Cleanup(e, {})
    /\ UNCHANGED <<running, abandoned>>

\* async_stop, once set up.
Stop(e) ==
    /\ e \in running
    /\ running' = running \ {e}
    /\ Cleanup(e, {})
    /\ abandoned' = (abandoned \/ \E c \in Clients : Holds(e, c) /\ at[c] \in Unstoppable)

\* async_prepare returns, and connect_blocking waits for a thread of the executor.
Downloads(c) ==
    /\ at[c] = "prepare"
    /\ Moves(c, "queued")
    /\ UNCHANGED <<running, entry, held, paths, files, abandoned>>

\* _extract_and_write_pem: the certificate is extracted and the paths are set,
NamesFiles(c) ==
    /\ at[c] = "queued"
    /\ Moves(c, "named") /\ paths' = [paths EXCEPT ![c] = TRUE]
    /\ UNCHANGED <<running, entry, held, files, abandoned>>

\* and read again for each file before it is opened: a clean-up on the event loop may have
\* reset them before this, which is an exception, or come between the two.
ReadsPath(c) ==
    /\ paths[c]
    /\ \/ at[c] = "named" /\ Moves(c, "opens_cert")
       \/ at[c] = "certed" /\ Moves(c, "opens_key")
       \/ at[c] = "keyed" /\ Moves(c, "opens_both")
    /\ UNCHANGED <<running, entry, held, paths, files, abandoned>>

\* One file is written,
WritesCert(c) ==
    /\ at[c] = "opens_cert"
    /\ Moves(c, "certed") /\ cert' = c
    /\ UNCHANGED <<running, entry, held, paths, key, abandoned>>

\* then the other.
WritesKey(c) ==
    /\ at[c] = "opens_key"
    /\ Moves(c, "keyed") /\ key' = c
    /\ UNCHANGED <<running, entry, held, paths, cert, abandoned>>

\* connect_blocking up to load_cert_chain, which takes a certificate and its own key.
Loads(c) ==
    /\ at[c] = "opens_both"
    /\ cert # Nothing /\ cert = key
    /\ Moves(c, "loaded")
    /\ UNCHANGED <<running, entry, held, paths, files, abandoned>>

\* CONNACK.
Connects(c) ==
    /\ at[c] = "loaded"
    /\ Moves(c, "online")
    /\ UNCHANGED <<running, entry, held, paths, files, abandoned>>

\* An exception in either phase: no certificate, no broker, a path that cleanup_pem_files
\* has reset to None, a file that is gone or does not match.  Or the link is lost.
Fails(c) ==
    /\ at[c] \in InProgress \cup {"online"}
    /\ Moves(c, "failed")
    /\ UNCHANGED <<running, entry, held, paths, files, abandoned>>

\* A client that no manager holds and whose thread is done is gone; its files are not.
Collected(c) ==
    /\ entry[c] # Nothing /\ ~held[c] /\ at[c] \in {"online", "failed"}
    /\ Moves(c, "free") /\ entry' = [entry EXCEPT ![c] = Nothing]
    /\ paths' = [paths EXCEPT ![c] = FALSE]
    /\ cert' = IF cert = c THEN Gone ELSE cert
    /\ key' = IF key = c THEN Gone ELSE key
    /\ UNCHANGED <<running, held, abandoned>>

------------------------------------------------------------------------------
EntryStep(e) == SetUp(e) \/ CleansUp(e) \/ Stop(e) \/ \E c \in Clients : Attempt(e, c)
ClientStep(c) ==
    \/ Downloads(c) \/ NamesFiles(c) \/ ReadsPath(c) \/ WritesCert(c) \/ WritesKey(c) \/ Loads(c)
    \/ Connects(c) \/ Fails(c) \/ Collected(c)

Next == (\E e \in Entries : EntryStep(e)) \/ (\E c \in Clients : ClientStep(c))

Spec == Init /\ [][Next]_vars

------------------------------------------------------------------------------
(* Properties.                                                               *)

\* Type correctness; only a manager that is not stopping holds a client.
TypeOK ==
    /\ running \subseteq Entries
    /\ entry \in [Clients -> Entries \cup {Nothing}]
    /\ held \in [Clients -> BOOLEAN] /\ paths \in [Clients -> BOOLEAN]
    /\ at \in [Clients -> Stages]
    /\ cert \in Clients \cup {Nothing, Gone} /\ key \in Clients \cup {Nothing, Gone}
    /\ abandoned \in BOOLEAN
    /\ \A c \in Clients : held[c] => entry[c] \in running

\* An attempt presents the certificate and the key it downloaded itself, not those of an
\* earlier attempt or of another account, unless another client has its paths set at that
\* moment, which is another entry's, or a stop has once left a thread behind that was yet
\* to write a file.
LoadsItsOwn ==
    [][\A c \in Clients :
          at[c] = "opens_both" /\ at'[c] = "loaded"
          => \/ cert = c /\ key = c
             \/ \E other \in Clients \ {c} : paths[other]
             \/ abandoned]_vars

\* The unencrypted private key does not outlive its use: a key file is there only while a
\* manager holds a client that will unlink it, except for a thread left behind by a stop
\* before it had set the paths, or between reading a path and opening the file: what it
\* then writes nobody unlinks.
KeyIsAccountedFor ==
    key # Nothing => (\E c \in Clients : held[c] /\ paths[c]) \/ abandoned

\* The inductive invariant: what the state of a client says of who holds it and whether
\* its files will be unlinked,
Slots ==
    \A c \in Clients :
        /\ at[c] = "free" <=> entry[c] = Nothing
        /\ entry[c] = Nothing => ~held[c] /\ ~paths[c]
        /\ paths[c] /\ ~held[c] => abandoned
        /\ ~held[c] /\ at[c] = "queued" => abandoned
        /\ ~paths[c] /\ at[c] \in Unstoppable \ {"queued"} => abandoned
        /\ at[c] = "prepare" => held[c]
        /\ \A d \in Clients : held[c] /\ held[d] /\ entry[c] = entry[d] => c = d

\* and that a file belongs to a client that has its paths set.
Owned(file) == file # Nothing => (file \in Clients /\ paths[file]) \/ abandoned
IInv == TypeOK /\ Slots /\ Owned(cert) /\ Owned(key)

==============================================================================
