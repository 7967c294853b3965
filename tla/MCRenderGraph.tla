--------------------------- MODULE MCRenderGraph ---------------------------
(***************************************************************************)
(* The passes of the renderer (render/RendererFeatureGraph.cpp) that share *)
(* images in the ways that matter: a shadow map common to all frames, the  *)
(* surface depth that one pass writes and five read, now as a texture and  *)
(* now as an attachment, of the present and of the previous frame; a depth *)
(* hierarchy with two users, one of which has no image of its own; the     *)
(* DDGI atlas, which accumulates over frames.                              *)
(***************************************************************************)
EXTENDS RenderGraph

Use(image, access, required, final) ==
  [image |-> image, frame |-> "Current", access |-> access,
   required |-> required, final |-> final, when |-> {}]
Previous(use) == [use EXCEPT !.frame = "Previous"]
When(feature, use) == [use EXCEPT !.when = feature]

Node(owner, type, when, images) ==
  [owner |-> owner, type |-> type, when |-> when, images |-> images,
   after |-> {}, sideEffect |-> FALSE]

Screen == {"occlusion", "gtao"}
DepthTexture(image) == Use(image, "Sampled", "depth read only", "depth read only")
Texture(image) == Use(image, "Sampled", "shader read only", "shader read only")

MCNodes == <<
  Node("DirectionalShadow", "Graphics", {},
       <<Use("shadow", "DepthWrite", "depth", "depth read only")>>),
  Node("SurfacePrepass", "Graphics", Screen,
       <<Use("surface", "DepthWrite", "depth", "depth read only")>>),
  Node("DepthHierarchy", "Compute", Screen,
       <<DepthTexture("surface"),
         Use("hierarchy", "StorageWrite", "general", "general")>>),
  Node("OcclusionCull", "Compute", {"occlusion"},
       <<Use("hierarchy", "Sampled", "general", "general")>>),
  Node("GTAO", "Compute", {"gtao"},
       <<DepthTexture("surface"), Texture("hierarchy"),
         Previous(DepthTexture("surface")),
         Use("gtao", "StorageWrite", "general", "shader read only")>>),
  Node("DDGI", "Transfer", {"reset"},
       <<Use("atlas", "TransferWrite", "transfer", "general")>>),
  Node("DDGI", "Compute", {"ddgi"},
       <<Use("atlas", "StorageReadWrite", "general", "general")>>),
  Node("DDGI", "Compute", {"ddgi"},
       <<Use("atlas", "Sampled", "general", "shader read only")>>),
  Node("MainForward Opaque", "Graphics", {},
       <<DepthTexture("shadow"), When({"gtao"}, Texture("gtao")),
         When({"ddgi"}, Texture("atlas"))>>),
  Node("MainForward Transparent", "Graphics", Screen,
       <<Use("surface", "DepthRead", "depth read only", "depth read only")>>) >>

\* OcclusionCullPass and GtaoPass have the default callback, DepthHierarchyPass
\* one of its own; the other passes write their sets in every frame or have none.
MCCallbacks ==
  [o \in {"DepthHierarchy", "OcclusionCull", "GTAO"} |->
     IF o = "DepthHierarchy" THEN {"hierarchy"} ELSE Images]

=============================================================================
