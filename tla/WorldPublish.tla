---------------------------- MODULE WorldPublish ----------------------------
(***************************************************************************)
(* Publishing a world: the client asks for a fresh id, then uploads the    *)
(* world and its screenshot side by side, each by a PUT that may be sent    *)
(* again when its answer is lost.  A publication that fails is not          *)
(* resumed; another one has an id of its own.                              *)
(*                                                                         *)
(* On the file system a reservation, which lasts a minute, admits the      *)
(* uploads, and every file is created once.  In a bucket the links expire  *)
(* instead, and an object is put whole or not at all.                      *)
(***************************************************************************)
EXTENDS Naturals

CONSTANTS
  Ids,      \* bound: publications
  Backends, \* of "local" and "r2": the storage of the deployment
  Tries     \* bound: how often a PUT is sent, 1 .. n

Targets == {"world", "screenshot"}
Puts == Ids \X Targets \X Tries

ASSUME PublishAssumption ==
  /\ Backends \subseteq {"local", "r2"} /\ Tries \in SUBSET (Nat \ {0}) /\ 1 \in Tries

VARIABLES
  kind,      \* WorldStorage.kind
  meta,      \* the ids with a meta file
  reserved,  \* the ids with a reservation file
  late,      \* the ids whose expiresAt has passed
  file,      \* what there is of each file or object
  put,       \* how far the handling of each PUT has come
  client,    \* how far each publishWorld has come
  died       \* history: the ids of handlers that died on the way

publishVars == <<kind, meta, reserved, late, file, put, client, died>>

Local == kind = "local"

\* Of a file
Nothing == 0
Part == 1
Whole == 2

\* Of a PUT
Unsent == 0
Sent == 1
Admitted == 2
Opened == 3
Closed == 4
Fine == 5
Refused == 6

\* Of publishWorld
Idle == 0
Asking == 1
Uploading == 2
Published == 3
Failed == 4

-----------------------------------------------------------------------------
\* Reserving

\* reserveUpload, as far as the meta file
Ask(i) ==
  /\ client[i] = Idle /\ client' = [client EXCEPT ![i] = Asking]
  /\ meta' = IF Local THEN meta \cup {i} ELSE meta
  /\ UNCHANGED <<kind, reserved, late, file, put, died>>

\* The reservation file, whether or not the client still waits for an answer
Reserve(i) ==
  /\ Local /\ i \in meta \ reserved /\ client[i] \in {Asking, Failed}
  /\ \A p \in Puts : p[1] = i => put[p] = Unsent
  /\ reserved' = reserved \cup {i}
  /\ UNCHANGED <<kind, meta, late, file, put, client, died>>

\* The answer arrives: both uploads start.
Begin(i) ==
  /\ client[i] = Asking /\ (Local => i \in reserved)
  /\ client' = [client EXCEPT ![i] = Uploading]
  /\ put' = [p \in Puts |-> IF p[1] = i /\ p[3] = 1 THEN Sent ELSE put[p]]
  /\ UNCHANGED <<kind, meta, reserved, late, file, died>>

\* No answer, or an error
NoReservation(i) ==
  /\ client[i] = Asking /\ client' = [client EXCEPT ![i] = Failed]
  /\ UNCHANGED <<kind, meta, reserved, late, file, put, died>>

\* UPLOAD_EXPIRY_SECONDS have passed.
Expire(i) ==
  /\ client[i] \notin {Idle, Asking} /\ i \notin late /\ late' = late \cup {i}
  /\ UNCHANGED <<kind, meta, reserved, file, put, client, died>>

-----------------------------------------------------------------------------
\* Uploading

Step(p, from, to) == put[p] = from /\ put' = [put EXCEPT ![p] = to]

FileOf(p) == file[<<p[1], p[2]>>]
Put(p, what) == file' = [file EXCEPT ![<<p[1], p[2]>>] = what]

\* A PUT whose answer the client has not seen is sent again.
Resend(p) ==
  /\ client[p[1]] = Uploading /\ p[3] > 1 /\ put[<<p[1], p[2], p[3] - 1>>] # Unsent
  /\ Step(p, Unsent, Sent)
  /\ UNCHANGED <<kind, meta, reserved, late, file, client, died>>

\* readLiveReservation
Admit(p) ==
  /\ Local
  /\ Step(p, Sent, IF p[1] \in reserved \ late THEN Admitted ELSE Refused)
  /\ UNCHANGED <<kind, meta, reserved, late, file, client, died>>

CreatesMutant(p) == TRUE

\* writeFile with the flag wx
Creates(p) == FileOf(p) = Nothing

\* The file is created, and then written.
Open(p) ==
  /\ IF Creates(p) THEN Step(p, Admitted, Opened) /\ Put(p, Part)
                   ELSE Step(p, Admitted, Refused) /\ UNCHANGED file
  /\ UNCHANGED <<kind, meta, reserved, late, client, died>>

CloseMutant(p) ==
  Step(p, Opened, Closed) /\ UNCHANGED <<kind, meta, reserved, late, file, client, died>>

Close(p) ==
  /\ Step(p, Opened, Closed) /\ Put(p, Whole)
  /\ UNCHANGED <<kind, meta, reserved, late, client, died>>

ConsumedMutant(i) == \A t \in Targets : file[<<i, t>>] = Nothing

\* cleanupReservationIfComplete: whether both files exist
Consumed(i) == \A t \in Targets : file[<<i, t>>] # Nothing

Tidy(p) ==
  /\ Step(p, Closed, Fine)
  /\ reserved' = IF Consumed(p[1]) THEN reserved \ {p[1]} ELSE reserved
  /\ UNCHANGED <<kind, meta, late, file, client, died>>

\* The process that handles the PUT dies, or the disk is full.
Die(p) ==
  /\ put[p] \in {Admitted, Opened, Closed} /\ Step(p, put[p], Refused)
  /\ died' = died \cup {p[1]}
  /\ UNCHANGED <<kind, meta, reserved, late, file, client>>

\* A bucket takes an object whole, before the link expires, if there is none.
Store(p) ==
  /\ ~Local
  /\ \/ /\ p[1] \notin late /\ Creates(p)
        /\ Step(p, Sent, Fine) /\ Put(p, Whole)
     \/ /\ p[1] \in late \/ ~Creates(p)
        /\ Step(p, Sent, Refused) /\ UNCHANGED file
  /\ UNCHANGED <<kind, meta, reserved, late, client, died>>

\* The answer to the last PUT of a target that was sent
Heard(i, t, answer) ==
  \E n \in Tries : /\ put[<<i, t, n>>] = answer
                   /\ \A k \in Tries : k > n => put[<<i, t, k>>] = Unsent

\* publishWorld returns, and the id is recorded among one's own worlds.
Succeed(i) ==
  /\ client[i] = Uploading /\ \A t \in Targets : Heard(i, t, Fine)
  /\ client' = [client EXCEPT ![i] = Published]
  /\ UNCHANGED <<kind, meta, reserved, late, file, put, died>>

Fail(i) ==
  /\ client[i] = Uploading /\ \E t \in Targets : Heard(i, t, Refused)
  /\ client' = [client EXCEPT ![i] = Failed]
  /\ UNCHANGED <<kind, meta, reserved, late, file, put, died>>

-----------------------------------------------------------------------------

Handle(p) == Admit(p) \/ Open(p) \/ Close(p) \/ Tidy(p) \/ Store(p)

PublishInit ==
  /\ kind \in Backends /\ meta = {} /\ reserved = {} /\ late = {} /\ died = {}
  /\ file = [f \in Ids \X Targets |-> Nothing] /\ put = [p \in Puts |-> Unsent]
  /\ client = [i \in Ids |-> Idle]

PublishNext ==
  \/ \E i \in Ids : \/ Ask(i) \/ Reserve(i) \/ Begin(i) \/ NoReservation(i)
                    \/ Expire(i) \/ Succeed(i) \/ Fail(i)
  \/ \E p \in Puts : Resend(p) \/ Handle(p) \/ Die(p)

PublishSpec == PublishInit /\ [][PublishNext]_publishVars

-----------------------------------------------------------------------------

\* The types of the variables.
PublishTypeOK ==
  /\ kind \in Backends /\ meta \subseteq Ids /\ late \subseteq Ids /\ died \subseteq Ids
  /\ reserved \subseteq meta
  /\ file \in [Ids \X Targets -> {Nothing, Part, Whole}]
  /\ put \in [Puts -> Unsent .. Refused] /\ client \in [Ids -> Idle .. Failed]

\* A world recorded as published is there, whole, with its screenshot and its
\* meta file, and stays so: neither a PUT sent twice nor one that is late can
\* take anything of it away.
PublishedIsWhole == \A i \in Ids :
  client[i] = Published => /\ \A t \in Targets : file[<<i, t>>] = Whole
                           /\ Local => i \in meta

Busy(i) == \E p \in Puts : p[1] = i /\ put[p] \in Admitted .. Closed

\* Two uploads that end side by side do not each leave the reservation to the
\* other: once both files are there and no handler died, it is gone.
LandedIsConsumed == \A i \in Ids \ died :
  (\A t \in Targets : file[<<i, t>>] = Whole) /\ ~Busy(i) => i \notin reserved

\* listWorlds, which looks for the meta and the world file
Listed(i) == file[<<i, "world">>] # Nothing

\* What is listed is, in time, a whole world, unless its handler died.
ListedBecomesWhole == \A i \in Ids :
  Listed(i) ~> file[<<i, "world">>] = Whole \/ i \in died
=============================================================================
