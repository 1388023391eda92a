-------------------------- MODULE CertificatesProofs --------------------------
(***************************************************************************)
(* What is proved of Certificates, for any entries and any clients: IInv   *)
(* is inductive, so a key file is always accounted for, and an attempt     *)
(* loads the pair it has written itself.  The heart of it is the cleanup,  *)
(* which only ever drops one client, and a client of its entry.            *)
(***************************************************************************)
EXTENDS Certificates, TLAPS

(* The cleanup of an entry, by itself.                                       *)

\* A cleanup keeps the types, whether or not a free client takes the place.
LEMMA CleanupType ==
    ASSUME TypeOK, Slots, NEW e \in Entries, NEW fresh \in SUBSET Clients,
           \A c \in fresh : Free(c), Cleanup(e, fresh)
    PROVE  /\ entry' \in [Clients -> Entries \cup {Nothing}]
           /\ held' \in [Clients -> BOOLEAN] /\ paths' \in [Clients -> BOOLEAN]
           /\ at' \in [Clients -> Stages]
           /\ cert' \in Clients \cup {Nothing, Gone} /\ key' \in Clients \cup {Nothing, Gone}
           /\ \A c \in Clients : held'[c] => (c \in fresh /\ entry'[c] = e)
                                          \/ (entry'[c] = entry[c] /\ held[c] /\ entry[c] # e)
  <1>1. /\ entry' \in [Clients -> Entries \cup {Nothing}]
        /\ held' \in [Clients -> BOOLEAN] /\ paths' \in [Clients -> BOOLEAN]
        /\ at' \in [Clients -> Stages]
    BY DEF Cleanup, TypeOK, StillHeld, Stages, InProgress
  <1>2. cert' \in Clients \cup {Nothing, Gone} /\ key' \in Clients \cup {Nothing, Gone}
    BY DEF Cleanup, TypeOK
  <1>3. \A c \in Clients : held'[c] => (c \in fresh /\ entry'[c] = e)
                                    \/ (entry'[c] = entry[c] /\ held[c] /\ entry[c] # e)
    BY DEF Cleanup, StillHeld, Dropped, Holds
  <1> QED BY <1>1, <1>2, <1>3

\* A cleanup keeps the slots in order, if the thread of the client it drops writes no more
\* files, or if that is noted.
LEMMA CleanupSlots ==
    ASSUME CertificatesAssumption, TypeOK, Slots, NEW e \in Entries,
           NEW fresh \in SUBSET Clients,
           \A c \in fresh : Free(c), \A c, d \in fresh : c = d, Cleanup(e, fresh),
           abandoned' \in BOOLEAN, abandoned => abandoned',
           \A c \in Clients : Holds(e, c) /\ at[c] \in Unstoppable => abandoned'
    PROVE  Slots'
  <1> SUFFICES ASSUME NEW c \in Clients
               PROVE  /\ at'[c] = "free" <=> entry'[c] = Nothing
                      /\ entry'[c] = Nothing => ~held'[c] /\ ~paths'[c]
                      /\ paths'[c] /\ ~held'[c] => abandoned'
                      /\ ~held'[c] /\ at'[c] = "queued" => abandoned'
                      /\ ~paths'[c] /\ at'[c] \in Unstoppable \ {"queued"} => abandoned'
                      /\ at'[c] = "prepare" => held'[c]
                      /\ \A d \in Clients :
                            held'[c] /\ held'[d] /\ entry'[c] = entry'[d] => c = d
    BY DEF Slots
  <1>1. \A d \in Clients : held'[d] => (d \in fresh /\ entry'[d] = e)
                                    \/ (entry'[d] = entry[d] /\ held[d] /\ entry[d] # e)
    BY CleanupType
  <1>2. \A d \in Clients : held'[c] /\ held'[d] /\ entry'[c] = entry'[d] => c = d
    BY <1>1 DEF Slots
  <1>3. CASE c \in fresh
    <2>1. /\ entry'[c] = e /\ held'[c] = TRUE /\ at'[c] = "prepare" /\ ~paths'[c]
      BY <1>3 DEF Cleanup, Slots, Free
    <2> QED BY <2>1, <1>2 DEF CertificatesAssumption, Unstoppable
  <1>4. CASE c \notin fresh /\ Holds(e, c)
    <2>1. /\ held'[c] = FALSE /\ ~paths'[c]
          /\ entry'[c] = IF at[c] \notin InThread THEN Nothing ELSE entry[c]
          /\ at'[c] = IF at[c] \notin InThread THEN "free" ELSE at[c]
      BY <1>4 DEF Cleanup, StillHeld, Dropped, Holds
    <2> QED BY <1>4, <2>1, <1>2 DEF Slots, Holds, InThread, Unstoppable, CertificatesAssumption
  <1>5. CASE c \notin fresh /\ ~Holds(e, c)
    <2>1. /\ held'[c] = held[c] /\ paths'[c] = paths[c]
          /\ entry'[c] = entry[c] /\ at'[c] = at[c]
      BY <1>5 DEF Cleanup, StillHeld, Dropped, Holds, TypeOK
    <2> QED BY <2>1, <1>2 DEF Slots
  <1> QED BY <1>3, <1>4, <1>5

\* A file that a cleanup leaves belongs to a client of another entry.
LEMMA CleanupFiles ==
    ASSUME TypeOK, Slots, Owned(cert), Owned(key), NEW e \in Entries,
           NEW fresh \in SUBSET Clients, \A c \in fresh : Free(c), Cleanup(e, fresh),
           abandoned => abandoned'
    PROVE  Owned(cert)' /\ Owned(key)'
  <1>1. CASE Unlinks(e)
    BY <1>1 DEF Cleanup, Owned
  <1>2. CASE ~Unlinks(e)
    <2>1. \A c \in Clients : paths[c] => paths'[c]
      BY <1>2 DEF Cleanup, Unlinks, TypeOK
    <2>2. cert' = cert /\ key' = key
      BY <1>2 DEF Cleanup
    <2> QED BY <2>1, <2>2 DEF Owned
  <1> QED BY <1>1, <1>2

------------------------------------------------------------------------------
(* IInv is inductive.                                                        *)

\* At the start no client exists and no file is there.
LEMMA InitIInv == Init => IInv
  BY DEF Init, IInv, TypeOK, Slots, Owned, Stages, Unstoppable

\* The four actions of an entry.
LEMMA EntryIInv ==
    ASSUME CertificatesAssumption, IInv, NEW e \in Entries, EntryStep(e)
    PROVE  IInv'
  <1> USE DEF IInv
  <1>1. CASE SetUp(e)
    BY <1>1 DEF SetUp, TypeOK, Slots, Owned, files
  <1>2. ASSUME NEW c \in Clients, Attempt(e, c) PROVE IInv'
    <2>1. Cleanup(e, {c}) /\ Free(c) /\ MayAttempt(e) /\ e \in running
          /\ running' = running /\ abandoned' = abandoned
      BY <1>2 DEF Attempt
    <2>2. {c} \in SUBSET Clients /\ \A d \in {c} : Free(d) /\ \A f, g \in {c} : f = g
      BY <2>1
    <2>3. \A d \in Clients : ~(Holds(e, d) /\ at[d] \in Unstoppable)
      BY <2>1 DEF MayAttempt, Unstoppable
    <2>4. TypeOK'
      BY <2>1, <2>2, CleanupType DEF TypeOK
    <2>5. Slots'
      BY <2>1, <2>2, <2>3, CleanupSlots DEF TypeOK
    <2>6. Owned(cert)' /\ Owned(key)'
      BY <2>1, <2>2, CleanupFiles
    <2> QED BY <2>4, <2>5, <2>6
  <1>3. CASE CleansUp(e)
    <2>1. Cleanup(e, {}) /\ running' = running /\ abandoned' = abandoned
      BY <1>3 DEF CleansUp
    <2>2. \A d \in Clients : ~(Holds(e, d) /\ at[d] \in Unstoppable)
      BY <1>3 DEF CleansUp, Holds, Slots, Unstoppable
    <2>3. TypeOK'
      BY <2>1, CleanupType DEF TypeOK
    <2>4. Slots'
      BY <2>1, <2>2, CleanupSlots DEF TypeOK
    <2>5. Owned(cert)' /\ Owned(key)'
      BY <2>1, CleanupFiles
    <2> QED BY <2>3, <2>4, <2>5
  <1>4. CASE Stop(e)
    <2>1. Cleanup(e, {}) /\ running' = running \ {e}
      BY <1>4 DEF Stop
    <2>2. /\ abandoned' \in BOOLEAN /\ (abandoned => abandoned')
          /\ \A d \in Clients : Holds(e, d) /\ at[d] \in Unstoppable => abandoned'
      BY <1>4 DEF Stop, TypeOK
    <2>3. TypeOK'
      BY <2>1, <2>2, CleanupType DEF TypeOK
    <2>4. Slots'
      BY <2>1, <2>2, CleanupSlots DEF TypeOK
    <2>5. Owned(cert)' /\ Owned(key)'
      BY <2>1, <2>2, CleanupFiles
    <2> QED BY <2>3, <2>4, <2>5
  <1> QED BY <1>1, <1>2, <1>3, <1>4 DEF EntryStep

\* The steps of a client.
LEMMA ClientIInv ==
    ASSUME CertificatesAssumption, IInv, NEW c \in Clients, ClientStep(c)
    PROVE  IInv'
  <1> USE DEF IInv, TypeOK, Slots, Owned, Moves, files, Stages, InProgress, InThread,
          Unstoppable
  <1>1. CASE Downloads(c)
    BY <1>1 DEF Downloads
  <1>2. CASE NamesFiles(c)
    BY <1>2 DEF NamesFiles
  <1>3. CASE ReadsPath(c)
    BY <1>3 DEF ReadsPath
  <1>4. CASE WritesCert(c)
    BY <1>4 DEF WritesCert
  <1>5. CASE WritesKey(c)
    BY <1>5 DEF WritesKey
  <1>6. CASE Loads(c)
    BY <1>6 DEF Loads
  <1>7. CASE Connects(c)
    BY <1>7 DEF Connects
  <1>8. CASE Fails(c)
    BY <1>8 DEF Fails
  <1>9. CASE Collected(c)
    BY <1>9, CertificatesAssumption DEF Collected, CertificatesAssumption
  <1> QED BY <1>1, <1>2, <1>3, <1>4, <1>5, <1>6, <1>7, <1>8, <1>9 DEF ClientStep

\* IInv is kept where nothing changes.
LEMMA StutterIInv == IInv /\ UNCHANGED vars => IInv'
  BY DEF IInv, TypeOK, Slots, Owned, vars, files

\* IInv holds in every state, for any number of entries and clients.
THEOREM Invariance == Spec => []IInv
  <1>1. IInv /\ [Next]_vars => IInv'
    BY EntryIInv, ClientIInv, StutterIInv, CertificatesAssumption DEF Next
  <1> QED BY <1>1, InitIInv, PTL DEF Spec

\* Type correctness; only a manager that is not stopping holds a client.
THEOREM TypeCorrect == Spec => []TypeOK
  <1>1. IInv => TypeOK
    BY DEF IInv
  <1> QED BY <1>1, Invariance, PTL

\* The private key in the temporary directory is never left without a client that unlinks
\* it, but for a thread that a stop has left behind.
THEOREM KeyAccounted == Spec => []KeyIsAccountedFor
  <1>1. IInv => KeyIsAccountedFor
    BY DEF IInv, Owned, Slots, KeyIsAccountedFor
  <1> QED BY <1>1, Invariance, PTL

\* With any number of accounts and clients, an attempt presents the certificate and key it
\* has written itself, with the exceptions LoadsItsOwn names.
THEOREM OwnPairLoaded == Spec => LoadsItsOwn
  <1> DEFINE A == \A c \in Clients :
                     at[c] = "opens_both" /\ at'[c] = "loaded"
                     => \/ cert = c /\ key = c
                        \/ \E other \in Clients \ {c} : paths[other]
                        \/ abandoned
  <1>1. ASSUME IInv, Next, NEW c \in Clients, at[c] = "opens_both", at'[c] = "loaded"
        PROVE  Loads(c)
    <2>1. ASSUME NEW e \in Entries, EntryStep(e) PROVE FALSE
      <3>1. \A fresh \in SUBSET Clients : Cleanup(e, fresh) => at'[c] # "loaded"
        BY <1>1 DEF Cleanup, IInv, TypeOK
      <3> QED BY <1>1, <2>1, <3>1 DEF EntryStep, SetUp, Attempt, CleansUp, Stop
    <2>2. ASSUME NEW d \in Clients, ClientStep(d) PROVE Loads(c)
      BY <1>1, <2>2 DEF ClientStep, Downloads, NamesFiles, ReadsPath, WritesCert, WritesKey, Loads, Connects,
         Fails, Collected, Moves, IInv, TypeOK
    <2> QED BY <1>1, <2>1, <2>2 DEF Next
  <1>2. IInv /\ [Next]_vars => [A]_vars
    <2> SUFFICES ASSUME IInv, Next, NEW c \in Clients, at[c] = "opens_both", at'[c] = "loaded"
                 PROVE  \/ cert = c /\ key = c
                        \/ \E other \in Clients \ {c} : paths[other]
                        \/ abandoned
      OBVIOUS
    <2>1. cert # Nothing /\ cert = key
      BY <1>1 DEF Loads
    <2>2. (cert \in Clients /\ paths[cert]) \/ abandoned
      BY <2>1 DEF IInv, Owned
    <2> QED BY <2>1, <2>2
  <1> QED BY <1>2, Invariance, PTL DEF Spec, LoadsItsOwn

==============================================================================
