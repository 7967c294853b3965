--------------------------- MODULE GraphCompiler ---------------------------
(***************************************************************************)
(* RenderGraphCompiler::compile (render/graph/RenderGraph.cpp): from the   *)
(* nodes that the passes declare, in registration order, to the order in   *)
(* which the active ones are recorded.                                     *)
(*                                                                         *)
(* A declaration is a record with the fields                               *)
(*   owner       the pass that declared the node                           *)
(*   type        "Graphics", "Compute", "Transfer" or "External"           *)
(*   images      the sequence of its image uses: image, frame, access,     *)
(*               required and final layout                                 *)
(*   after       explicitDependencies, indices of declarations             *)
(*   sideEffect  declared with setSideEffect()                             *)
(* A buffer is an image without a layout and without the check that it is  *)
(* written before it is read; an image stands for one subresource.         *)
(***************************************************************************)
EXTENDS Naturals, Sequences, FiniteSets, FiniteSetsExt, SequencesExt

Reads(access) ==
  access \in {"ColorReadWrite", "DepthRead", "Sampled", "StorageReadWrite", "TransferRead"}

Writes(access) ==
  access \in {"ColorWrite", "ColorReadWrite", "DepthWrite", "StorageWrite",
              "StorageReadWrite", "TransferWrite"}

\* imageAccessKey: the current and the previous image of a history resource
\* are two logical resources.
Resource(use) == <<use.image, use.frame>>

ResourcesRead(node) ==
  {Resource(u) : u \in {v \in ToSet(node.images) : Reads(v.access)}}
ResourcesWritten(node) ==
  {Resource(u) : u \in {v \in ToSet(node.images) : Writes(v.access)}}

\* AccessHistory::writer when node n is reached, 0 for none.
WriterBefore(nodes, active, n, r) ==
  Max({0} \cup {m \in active : m < n /\ r \in ResourcesWritten(nodes[m])})

\* AccessHistory::readers when node n is reached.
ReadersBefore(nodes, active, n, r) ==
  {m \in active : /\ WriterBefore(nodes, active, n, r) < m
                  /\ m < n
                  /\ r \in ResourcesRead(nodes[m]) \ ResourcesWritten(nodes[m])}

\* RAW, WAW and WAR, by resource.
ResourceProducers(nodes, active, n) ==
  UNION {{WriterBefore(nodes, active, n, r)} \ {0} :
           r \in ResourcesRead(nodes[n]) \cup ResourcesWritten(nodes[n])}
  \cup UNION {ReadersBefore(nodes, active, n, r) : r \in ResourcesWritten(nodes[n])}

\* A side effect is ordered after the active node before it and before the
\* active node after it.
SideEffectProducers(nodes, active, n) ==
  LET previous == {m \in active : m < n}
  IN IF previous = {} THEN {}
     ELSE {Max(previous)} \cap
          {m \in active : nodes[m].sideEffect \/ nodes[n].sideEffect}

\* dependencySets[n]
Producers(nodes, active, n) ==
  (ResourceProducers(nodes, active, n) \cup nodes[n].after
     \cup SideEffectProducers(nodes, active, n)) \ {n}

\* The queue of Kahn's algorithm gives the smallest ready index; the nodes
\* that are not active have no edges and change nothing.
Order(nodes, active) ==
  LET producers == [n \in active |-> Producers(nodes, active, n)]
      placed[k \in 0 .. Cardinality(active)] ==
        IF k = 0 THEN <<>>
        ELSE LET before == placed[k - 1]
                 done == ToSet(before)
                 ready == {n \in active \ done : producers[n] \subseteq done}
             IN IF ready = {} THEN before ELSE Append(before, Min(ready))
  IN placed[Cardinality(active)]

\* compile() throws unless this holds: no read of what no active node has
\* written, except of a history image or of one initialised outside the graph;
\* no dependency on an inactive node; no cycle.
Compiles(nodes, active, external) ==
  /\ \A n \in active : \A r \in ResourcesRead(nodes[n]) :
       \/ WriterBefore(nodes, active, n, r) # 0
       \/ r[2] = "Previous"
       \/ r[1] \in external
  /\ \A n \in active : nodes[n].after \subseteq active
  /\ Len(Order(nodes, active)) = Cardinality(active)

ActiveOwners(nodes, active) == {nodes[n].owner : n \in active}

=============================================================================
