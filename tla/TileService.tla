----------------------------- MODULE TileService -----------------------------
(***************************************************************************)
(* Layers and tiles, beside the ingestion that replaces their files: the   *)
(* weather API signs a token for an asset and its checksum, the tile API   *)
(* matches the row and then opens the file below its path, and the proxy   *)
(* keeps the tile until the token expires.                                 *)
(*                                                                         *)
(* A token is <<source, key>>: the conversion stands for the checksum it   *)
(* leads to.  One pixel stands for the tiles of a token.                   *)
(***************************************************************************)
EXTENDS Ingestion

VARIABLES
    tokens,     \* tokens clients hold that have not expired
    rendering,  \* requests between the query and the renderer
    tiles       \* for each token the contents served with it

serviceVars == <<tokens, rendering, tiles>>
serviceAllVars == <<vars, serviceVars>>

Tokens == Sources \X (1..MaxKey)

ServiceTypeOK ==
    /\ tokens \subseteq Tokens
    /\ rendering \subseteq Tokens
    /\ tiles \in [Tokens -> SUBSET (1..MaxKey)]

ServiceInit ==
    /\ Init
    /\ tokens = {} /\ rendering = {}
    /\ tiles = [t \in Tokens |-> {}]

\* resolve_cog_asset.sql, create_layer_token
ResolveLayer(s) ==
    /\ visible[RunOf[s]]
    /\ asset[s] = "available"
    /\ tokens' = tokens \cup {<<s, key[s]>>}
    /\ UNCHANGED <<vars, rendering, tiles>>

\* verify_layer_token, get_renderable_asset: available, with this checksum.
RequestTile(t) ==
    /\ t \in tokens
    /\ asset[t[1]] = "available" /\ key[t[1]] = t[2]
    /\ rendering' = rendering \cup {t}
    /\ UNCHANGED <<vars, tokens, tiles>>

\* resolve_asset_path, render_registered_tile: a missing file is a 404.
RenderTile(t) ==
    /\ t \in rendering
    /\ tiles' = [tiles EXCEPT ![t] = IF cog[t[1]] = 0 THEN @ ELSE @ \cup {cog[t[1]]}]
    /\ rendering' = rendering \ {t}
    /\ UNCHANGED <<vars, tokens>>

\* The proxy drops the tiles of a token when it expires.
ExpireToken(t) ==
    /\ t \in tokens \ rendering
    /\ tokens' = tokens \ {t}
    /\ tiles' = [tiles EXCEPT ![t] = {}]
    /\ UNCHANGED <<vars, rendering>>

ServiceNext ==
    \/ Next /\ UNCHANGED serviceVars
    \/ \E s \in Sources : ResolveLayer(s)
    \/ \E t \in Tokens : RequestTile(t) \/ RenderTile(t) \/ ExpireToken(t)

ServiceSpec == ServiceInit /\ [][ServiceNext]_serviceAllVars

-----------------------------------------------------------------------------
\* docs/architecture.md: "Signed layer tokens are deterministic within an
\* expiry bucket, so the reverse-proxy tile cache can safely retain immutable
\* tile responses."  A token stands for one content as long as it is valid.
TilesAreImmutable == \A t \in Tokens : Cardinality(tiles[t]) <= 1
=============================================================================
