------------------------- MODULE MCAssetRepository --------------------------
(***************************************************************************)
(* Instances of AssetRepository: two keys, so that a load waits behind     *)
(* another one, two holders (a world that goes and one that comes) and two *)
(* records, of one key (a reload) or of both.  One frame is in flight or   *)
(* finished; a record may be drawn, retire, be revived and be collected.   *)
(***************************************************************************)
EXTENDS AssetRepository
=============================================================================
