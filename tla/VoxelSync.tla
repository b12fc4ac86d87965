----------------------------- MODULE VoxelSync -----------------------------
(***************************************************************************)
(* One chunk of the block world, which a match starts without: the         *)
(* server's copy with its version and colliders, and the copy of each      *)
(* client, which shows its own edits before the server has accepted them   *)
(* and undoes them when the server decides otherwise.  Edits travel to the *)
(* server over a stream or as datagrams; chunk packets come back over a    *)
(* reliable stream fed by a bounded queue that drops what does not fit.    *)
(* The server has the chunk from its first edit on, version 1.             *)
(*                                                                         *)
(* An edit is the cell and what it is to hold: a material (BLOCK_ADD) or   *)
(* Air (BLOCK_REMOVE).  A client's block colliders follow its blocks in    *)
(* every operation and are left out; the server's do not.                  *)
(***************************************************************************)
EXTENDS Integers, Sequences, Links

CONSTANTS
  Clients,
  Cells,        \* cells of the chunk
  Materials,
  Air,          \* no block: material 0
  MayDrop,      \* may an outbound queue be full?
  MayDie,       \* may an edit reach the server after its author has died?
  FarJoins,     \* may a client join out of range of the chunk?
  MaxEdits,     \* bound: edits made in a behaviour
  MaxUp         \* bound: edits in flight from one client

ASSUME VoxelAssumption ==
  /\ Air \notin Materials
  /\ Reliable \in BOOLEAN /\ MayDrop \in BOOLEAN
  /\ MayDie \in BOOLEAN /\ FarJoins \in BOOLEAN
  /\ MaxEdits \in Nat /\ MaxUp \in Nat

VARIABLES
  version, blocks, colliders,  \* server: the chunk, and colliders per cell
  past,      \* history: the chunk's blocks at each version so far
  here,      \* server: the clients connected
  loaded,    \* client: has it the chunk in its map of chunks
  cver,      \* client: the last version the server confirmed
  cblocks,   \* client: the blocks it shows
  pending,   \* client: its edits not yet confirmed, with what they replaced
  told,      \* history: the cells whose contents a client has been told
  up,        \* edits on their way to the server, per client
  down,      \* chunk packets on their way to each client
  edits      \* edits made

serverVars == <<version, blocks, colliders, past>>
clientVars == <<loaded, cver, cblocks, pending, told>>
vars == <<serverVars, here, clientVars, up, down, edits>>

Contents == Materials \cup {Air}
Blocks == [Cells -> Contents]
NoBlocks == [x \in Cells |-> Air]

FullMutant == [kind |-> "full", ver |-> version - 1, blocks |-> blocks]

Full == [kind |-> "full", ver |-> version, blocks |-> blocks]
Diff(v, x, to) == [kind |-> "diff", ver |-> v, cell |-> x, to |-> to]

-----------------------------------------------------------------------------
\* The client

\* An edit aimed at what the client shows: only blocks are removed, only
\* empty cells are filled.  It counts its unconfirmed edits as versions to
\* come; it is shown at once if the chunk is loaded, and sent either way.
MakeEdit(c) ==
  \E x \in Cells, to \in Contents :
    /\ c \in here /\ edits < MaxEdits /\ Len(up[c]) < MaxUp
    /\ (to = Air) # (cblocks[c][x] = Air)
    /\ up' = [up EXCEPT ![c] = Append(@,
         [cell |-> x, to |-> to, expected |-> cver[c] + Len(pending[c])])]
    /\ IF loaded[c]
       THEN /\ cblocks' = [cblocks EXCEPT ![c][x] = to]
            /\ pending' = [pending EXCEPT ![c] =
                 Append(@, [cell |-> x, to |-> to, prev |-> cblocks[c][x]])]
       ELSE UNCHANGED <<cblocks, pending>>
    /\ edits' = edits + 1
    /\ UNCHANGED <<serverVars, here, loaded, cver, told, down>>

\* The pending edits of cell x, and the first of them.
Touching(p, x) == {i \in DOMAIN p : p[i].cell = x}
First(p, x) == CHOOSE i \in Touching(p, x) : \A j \in Touching(p, x) : i <= j

RevertedMutant(b, p) ==
  [x \in Cells |->
     IF Touching(p, x) = {} THEN b[x]
     ELSE p[CHOOSE i \in Touching(p, x) : \A j \in Touching(p, x) : i >= j].prev]

\* _revertAllPending: undone newest first, so a cell gets back what its first
\* pending edit replaced.
Reverted(b, p) ==
  [x \in Cells |-> IF Touching(p, x) = {} THEN b[x] ELSE p[First(p, x)].prev]

\* applyFullChunk
ApplyFull(c, m) ==
  /\ loaded' = [loaded EXCEPT ![c] = TRUE]
  /\ cver' = [cver EXCEPT ![c] = m.ver]
  /\ cblocks' = [cblocks EXCEPT ![c] = m.blocks]
  /\ pending' = [pending EXCEPT ![c] = << >>]
  /\ told' = [told EXCEPT ![c] = Cells]

GapMutant(c, m) == cver[c] # 0 /\ m.ver # cver[c] + Len(pending[c])

\* The diff does not follow the client's version (version 0 takes any).
Gap(c, m) == cver[c] # 0 /\ m.ver # cver[c] + 1

\* diffMatchesPending: it looks like the oldest pending edit, confirmed.
Confirms(c, m) ==
  /\ pending[c] # << >>
  /\ pending[c][1].cell = m.cell /\ pending[c][1].to = m.to

\* applyChunkDiff.  Undoing the pending edits empties the list, so none
\* survives to be applied again.  Version 1 tells of the whole chunk: it was
\* empty until then.
ApplyDiff(c, m) ==
  IF Gap(c, m) THEN UNCHANGED clientVars
  ELSE /\ loaded' = [loaded EXCEPT ![c] = TRUE]
       /\ cver' = [cver EXCEPT ![c] = m.ver]
       /\ told' = [told EXCEPT ![c] = IF m.ver = 1 THEN Cells ELSE @ \cup {m.cell}]
       /\ IF Confirms(c, m)
          THEN pending' = [pending EXCEPT ![c] = Tail(@)] /\ cblocks' = cblocks
          ELSE /\ cblocks' = [cblocks EXCEPT ![c] =
                    [Reverted(@, pending[c]) EXCEPT ![m.cell] = m.to]]
               /\ pending' = [pending EXCEPT ![c] = << >>]

ReceivePacket(c) ==
  /\ down[c] # << >>
  /\ LET m == down[c][1] IN
     IF m.kind = "full" THEN ApplyFull(c, m) ELSE ApplyDiff(c, m)
  /\ down' = [down EXCEPT ![c] = Tail(@)]
  /\ UNCHANGED <<serverVars, here, up, edits>>

-----------------------------------------------------------------------------
\* The network

LoseEdit(c) ==
  /\ ~Reliable
  /\ \E i \in DOMAIN up[c] : up' = [up EXCEPT ![c] = Without(@, i)]
  /\ UNCHANGED <<serverVars, here, clientVars, down, edits>>

-----------------------------------------------------------------------------
\* The server

\* Those of the clients in C whose queue has room.
WithRoom(C) == IF MayDrop THEN SUBSET C ELSE {C}

Queued(C, m) == [c \in Clients |-> IF c \in C THEN Append(down[c], m) ELSE down[c]]

Current(e) == e.expected = version

\* apply_edit: a block is added with a collider of its own, even over another
\* block, and removed with one collider.
AcceptEdit(e) ==
  /\ Current(e)
  /\ version' = version + 1
  /\ blocks' = [blocks EXCEPT ![e.cell] = e.to]
  /\ colliders' = [colliders EXCEPT ![e.cell] =
       IF e.to # Air THEN @ + 1 ELSE IF @ > 0 THEN @ - 1 ELSE @]
  /\ past' = [v \in 0 .. version + 1 |->
                IF v = version + 1 THEN [blocks EXCEPT ![e.cell] = e.to] ELSE past[v]]
  /\ \E C \in WithRoom(here) :
       down' = Queued(C, Diff(version + 1, e.cell, e.to))

\* An edit of another version is answered with the whole chunk.
Reject(c) ==
  /\ UNCHANGED serverVars
  /\ \E C \in WithRoom({c}) : down' = Queued(C, Full)

ReceiveEdit(c) ==
  \E i \in MayArrive(up[c]) :
    /\ \/ MayDie /\ UNCHANGED <<serverVars, down>>
       \/ AcceptEdit(up[c][i])
       \/ ~Current(up[c][i]) /\ Reject(c)
    /\ up' = [up EXCEPT ![c] = Without(@, i)]
    /\ UNCHANGED <<here, clientVars, edits>>

\* Connect: a client in range of the chunk is sent all of it, if there is one
\* yet, through a queue that is still empty.
Join(c) ==
  /\ c \notin here /\ here' = here \cup {c}
  /\ \/ version > 0 /\ down' = Queued({c}, Full)
     \/ (version = 0 \/ FarJoins) /\ down' = down
  /\ UNCHANGED <<serverVars, clientVars, up, edits>>

LeaveMutant(c) ==
  /\ c \in here /\ here' = here \ {c}
  /\ loaded' = [loaded EXCEPT ![c] = FALSE]
  /\ cver' = [cver EXCEPT ![c] = 0]
  /\ cblocks' = [cblocks EXCEPT ![c] = NoBlocks]
  /\ pending' = pending
  /\ told' = [told EXCEPT ![c] = {}]
  /\ up' = [up EXCEPT ![c] = << >>] /\ down' = [down EXCEPT ![c] = << >>]
  /\ UNCHANGED <<serverVars, edits>>

\* Disconnect; the page, with its copy of the world, is gone.
Leave(c) ==
  /\ c \in here /\ here' = here \ {c}
  /\ loaded' = [loaded EXCEPT ![c] = FALSE]
  /\ cver' = [cver EXCEPT ![c] = 0]
  /\ cblocks' = [cblocks EXCEPT ![c] = NoBlocks]
  /\ pending' = [pending EXCEPT ![c] = << >>]
  /\ told' = [told EXCEPT ![c] = {}]
  /\ up' = [up EXCEPT ![c] = << >>] /\ down' = [down EXCEPT ![c] = << >>]
  /\ UNCHANGED <<serverVars, edits>>

-----------------------------------------------------------------------------
\* A new voxel world has no chunk.
Init ==
  /\ version = 0 /\ blocks = NoBlocks
  /\ colliders = [x \in Cells |-> 0]
  /\ past = [v \in {0} |-> NoBlocks]
  /\ here = {}
  /\ loaded = [c \in Clients |-> FALSE]
  /\ cver = [c \in Clients |-> 0]
  /\ cblocks = [c \in Clients |-> NoBlocks]
  /\ pending = [c \in Clients |-> << >>]
  /\ told = [c \in Clients |-> {}]
  /\ up = [c \in Clients |-> << >>] /\ down = [c \in Clients |-> << >>]
  /\ edits = 0

Next ==
  \E c \in Clients :
    \/ MakeEdit(c) \/ ReceivePacket(c) \/ LoseEdit(c)
    \/ ReceiveEdit(c) \/ Join(c) \/ Leave(c)

Spec == Init /\ [][Next]_vars

\* What is in flight arrives, if it is not lost.  Nobody has to edit, join or
\* leave.
Fairness ==
  \A c \in Clients : WF_vars(ReceivePacket(c)) /\ WF_vars(ReceiveEdit(c))

FairSpec == Spec /\ Fairness

-----------------------------------------------------------------------------
\* Properties

PendingEdit == [cell : Cells, to : Contents, prev : Contents]
Command == [cell : Cells, to : Contents, expected : Nat]
Packet ==
  [kind : {"full"}, ver : Nat, blocks : Blocks]
    \cup [kind : {"diff"}, ver : Nat, cell : Cells, to : Contents]

\* The types; and a client without the chunk shows and awaits nothing.
TypeOK ==
  /\ version \in Nat /\ blocks \in Blocks /\ colliders \in [Cells -> Nat]
  /\ past \in [0 .. version -> Blocks]
  /\ here \subseteq Clients
  /\ loaded \in [Clients -> BOOLEAN] /\ cver \in [Clients -> Nat]
  /\ cblocks \in [Clients -> Blocks]
  /\ pending \in [Clients -> Seq(PendingEdit)] /\ told \in [Clients -> SUBSET Cells]
  /\ up \in [Clients -> Seq(Command)] /\ down \in [Clients -> Seq(Packet)]
  /\ edits \in Nat
  /\ \A c \in Clients :
       ~loaded[c] => /\ cver[c] = 0 /\ cblocks[c] = NoBlocks
                     /\ pending[c] = << >> /\ told[c] = {}

\* The blocks b in the cells t, and none elsewhere.
Only(t, b) == [x \in Cells |-> IF x \in t THEN b[x] ELSE Air]

\* Under its unconfirmed edits a client has exactly the blocks the server had
\* at the version the client believes it has, in every cell it has been told
\* of, and none elsewhere: whatever is dropped, rejected, overtaken or made by
\* others, wherever and whenever it joined, undoing the pending edits leaves
\* nothing that was never so, and nothing of two versions.
ConfirmedView ==
  \A c \in Clients :
    loaded[c] =>
      /\ cver[c] \in 1 .. version
      /\ Reverted(cblocks[c], pending[c]) = Only(told[c], past[cver[c]])

\* A client that stays never goes back to an older version.
VersionsRise == [][\A c \in here \cap here' : cver[c] <= cver'[c]]_vars

\* Over a stream whose queues have room, once the edits stop every client
\* that stays shows the server's blocks and awaits nothing.
Converges ==
  \A c \in Clients :
    <>[](c \in here) => <>[](cblocks[c] = blocks /\ pending[c] = << >>)

\* A client that has skipped a diff is brought up to date again.
Behind(c) == loaded[c] /\ cver[c] < version


\* Each block of the server has its one collider, and nothing else has one.
OneCollider ==
  \A x \in Cells : colliders[x] = IF blocks[x] = Air THEN 0 ELSE 1
=============================================================================
