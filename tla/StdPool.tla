-------------------------------- MODULE StdPool --------------------------------
(***************************************************************************)
(* RStdPool: items of one size, cut from blocks and kept on a list while   *)
(* they are free.  The first item of a block holds the block's own place   *)
(* in the list of blocks.  While an item is handed out all its memory is   *)
(* the caller's, the links included.                                       *)
(*                                                                         *)
(* Functions that loop over nodes take a step per node, so that each step  *)
(* is one operation of StdList; no other call runs in between.             *)
(***************************************************************************)
EXTENDS StdList

CONSTANTS
    m_oBuffers, m_oNodes,   \* two lists: the blocks, and the free items
    Blocks                  \* the memory there is: sequences of one node or more

ASSUME PoolAssumption ==
    /\ Lists = {m_oBuffers, m_oNodes} /\ m_oBuffers # m_oNodes
    /\ \A b \in Blocks : b \in Seq(Nodes) /\ b # <<>>
    /\ \A b, c \in Blocks : \A i \in DOMAIN b, j \in DOMAIN c : b[i] = c[j] => b = c /\ i = j

VARIABLES
    pool,       \* m_iSize # 0, m_iNumItems and m_bExtensible
    running,    \* the function that is running, and the nodes it still adds
    live,       \* the blocks that are allocated
    held        \* the items that are handed out

pvars == <<vars, pool, running, live, held>>

Unused == [created |-> FALSE, num |-> 0, extensible |-> FALSE]

Idle == [func |-> "none", todo |-> <<>>]

PInit ==
    /\ Init
    /\ pool = Unused
    /\ running = Idle
    /\ live = {}
    /\ held = {}

InBlock(b) == {b[i] : i \in 2 .. Len(b)}

--------------------------------------------------------------------------------
(***************************************************************************)
(* Create() and ExtendPool().                                              *)
(***************************************************************************)

\* The memory is there, and the block is put on its list; the items follow.
Extend(func, num) ==
    \E b \in Blocks \ live :
        /\ Len(b) = num + 1
        /\ addTail(m_oBuffers, b[1])
        /\ live' = live \cup {b}
        /\ running' = [func |-> func, todo |-> Tail(b)]

\* There is not enough of it: new throws, or returns NULL.
NoMemory == UNCHANGED <<vars, live, running>>

Create(num, extensible) ==
    /\ running = Idle /\ ~pool.created
    /\ pool' = [created |-> TRUE, num |-> num, extensible |-> extensible]
    /\ Extend("Create", num) \/ NoMemory
    /\ UNCHANGED held

AddItem ==
    /\ running.todo # <<>>
    /\ addTail(m_oNodes, Head(running.todo))
    /\ running' = [running EXCEPT !.todo = Tail(@)]
    /\ UNCHANGED <<pool, live, held>>

CreateReturns ==
    /\ running = [func |-> "Create", todo |-> <<>>]
    /\ running' = Idle
    /\ UNCHANGED <<vars, pool, live, held>>

--------------------------------------------------------------------------------
(***************************************************************************)
(* GetNode() and ReleaseNode().                                            *)
(***************************************************************************)

\* MUTANT: the item is handed out and stays on the list.
Shared(n) ==
    /\ held' = held \cup {n}
    /\ UNCHANGED vars

HandOut(n) ==
    /\ remove(m_oNodes, 1)
    /\ held' = held \cup {n}

GetNode ==
    /\ running.func \in {"none", "GetNode"} /\ running.todo = <<>>
    /\ getHead(m_oNodes) # Null
    /\ HandOut(getHead(m_oNodes))
    /\ running' = Idle
    /\ UNCHANGED <<pool, live>>

GetNodeExtends ==
    /\ running = Idle
    /\ getHead(m_oNodes) = Null /\ pool.extensible
    /\ Extend("GetNode", pool.num) \/ NoMemory
    /\ UNCHANGED <<pool, held>>

\* A block with room for no item has not helped.
GetNodeFails ==
    /\ running = [func |-> "GetNode", todo |-> <<>>]
    /\ getHead(m_oNodes) = Null
    /\ running' = Idle
    /\ UNCHANGED <<vars, pool, live, held>>

\* The caller uses an item.
Scribble(n) ==
    /\ n \in held
    /\ link' = [link EXCEPT !.prev[n] = Garbage, !.next[n] = Garbage]
    /\ UNCHANGED <<count, items, off, pool, running, live, held>>

PutBack(n) == addTail(m_oNodes, n)

ReleaseNode(n) ==
    /\ running = Idle
    /\ n \in held
    /\ PutBack(n)
    /\ held' = held \ {n}
    /\ UNCHANGED <<pool, running, live>>

--------------------------------------------------------------------------------
(***************************************************************************)
(* close(): the items, then the blocks, then the rest.  What was handed    *)
(* out is void.                                                            *)
(***************************************************************************)

CloseItems(a_bFreeNodes) ==
    /\ running = Idle
    /\ held' = {}
    /\ IF a_bFreeNodes
         THEN /\ running' = [func |-> "freeNodes", todo |-> <<>>]
              /\ UNCHANGED vars
         ELSE /\ running' = [func |-> "freeBuffers", todo |-> <<>>]
              /\ Reset(m_oNodes)
    /\ UNCHANGED <<pool, live>>

FreeNode ==
    /\ running.func = "freeNodes"
    /\ \/ remHead(m_oNodes) /\ UNCHANGED running
       \/ /\ getHead(m_oNodes) = Null
          /\ running' = [running EXCEPT !.func = "freeBuffers"]
          /\ UNCHANGED vars
    /\ UNCHANGED <<pool, live, held>>

Freed(buffer) == {b \in live : b[1] # buffer}

FreeBuffer ==
    /\ running.func = "freeBuffers"
    /\ remHead(m_oBuffers)
    /\ live' = Freed(getHead(m_oBuffers))
    /\ UNCHANGED <<pool, running, held>>

CloseReturns ==
    /\ running.func = "freeBuffers"
    /\ getHead(m_oBuffers) = Null
    /\ pool' = Unused
    /\ running' = Idle
    /\ UNCHANGED <<vars, live, held>>

PNext ==
    \/ \E num \in {Len(b) - 1 : b \in Blocks}, extensible \in BOOLEAN :
         Create(num, extensible)
    \/ AddItem \/ CreateReturns
    \/ GetNode \/ GetNodeExtends \/ GetNodeFails
    \/ \E n \in held : Scribble(n) \/ ReleaseNode(n)
    \/ \E a_bFreeNodes \in BOOLEAN : CloseItems(a_bFreeNodes)
    \/ FreeNode \/ FreeBuffer \/ CloseReturns

PoolSpec == PInit /\ [][PNext]_pvars

--------------------------------------------------------------------------------
(***************************************************************************)
(* Properties.                                                             *)
(***************************************************************************)

Free == Members(m_oNodes)

ToAdd == {running.todo[i] : i \in DOMAIN running.todo}

\* Outside close() every item of every live block is either free, or handed
\* out, or about to be added, and only one of them; there are no others, so
\* no item is lost, handed out twice or in memory that was freed.
EveryItemOnce ==
    /\ running.func \notin {"freeNodes", "freeBuffers"} =>
         Free \cup held \cup ToAdd = UNION {InBlock(b) : b \in live}
    /\ Free \cap held = {} /\ Free \cap ToAdd = {} /\ held \cap ToAdd = {}

\* No node on either list, whose links the pool will follow, is in memory
\* that was freed; every block that was not is on the list of blocks; and a
\* pool that was closed has none left, so that it can be created again.
NoFreedLink ==
    /\ Free \subseteq UNION {InBlock(b) : b \in live}
    /\ Members(m_oBuffers) = {b[1] : b \in live}
    /\ running = Idle /\ ~pool.created => live = {} /\ held = {}

--------------------------------------------------------------------------------
(***************************************************************************)
(* The inductive invariant.                                                *)
(***************************************************************************)
PoolTyped ==
    /\ TypeOK
    /\ pool \in [created : BOOLEAN, num : Nat, extensible : BOOLEAN]
    /\ running \in [func : {"none", "Create", "GetNode", "freeNodes", "freeBuffers"}, todo : Seq(Nodes)]
    /\ live \subseteq Blocks

\* A node is added once, by Create() or GetNode(); close() has taken everything back,
\* and gone through the items before the blocks; and a pool that is not there has nothing.
CallsAreInOrder ==
    /\ \A i, j \in DOMAIN running.todo : running.todo[i] = running.todo[j] => i = j
    /\ running.func \notin {"Create", "GetNode"} => running.todo = <<>>
    /\ running.func \in {"freeNodes", "freeBuffers"} => held = {}
    /\ running.func = "freeBuffers" => Free = {}
    /\ ~pool.created => live = {} /\ held = {} /\ ~pool.extensible

PoolInOrder == PoolTyped /\ Linked /\ EveryItemOnce /\ NoFreedLink /\ CallsAreInOrder
================================================================================
