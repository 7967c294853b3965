--------------------------- MODULE MCModelUpload ---------------------------
(***************************************************************************)
(* Instances of ModelUpload.  A slot holds 4 bytes and offsets are         *)
(* multiples of 2, so that one resource fits, two may fit, and one is      *)
(* larger than a slot; models with more batches than slots.                *)
(***************************************************************************)
EXTENDS ModelUpload

Model(textures, meshes, materials) ==
  [textures |-> textures, meshes |-> meshes, materials |-> materials]

PreparedModels ==
  {Model(t, m, 1) :
     t \in {<<>>, <<1>>, <<3, 4>>, <<1, 6, 2>>},
     m \in {<<>>, <<<<1, 1>>>>, <<<<1, 3>>, <<3, 2>>>>, <<<<5, 1>>, <<1, 1>>, <<2, 2>>>>}}
    \cup {Model(<<1, 2, 5, 4>>, <<<<1, 2>>, <<3, 3>>>>, 2)}

=============================================================================
