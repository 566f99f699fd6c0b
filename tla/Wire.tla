--------------------------------- MODULE Wire ---------------------------------
(***************************************************************************)
(* Addresses where nodes exchange them: what module Addresses promises, as *)
(* one behaviour beside those of the frames and the nodes.  The names      *)
(* leave room for those of modules Federation and Frames.                  *)
(***************************************************************************)
EXTENDS Naturals

CONSTANTS
    Letters,    \* characters that mean nothing to an address
    MaxLen,     \* bound: the longest text
    NoKey       \* Option::None

VARIABLES text, i, depth, current, segments, parsed

Addr == INSTANCE Addresses WITH None <- NoKey, result <- parsed

addressVars == <<text, i, depth, current, segments, parsed>>
-----------------------------------------------------------------------------
(* Properties.                                                             *)

\* Address::parse takes what is an address and nothing else, Display writes it
\* as it was read, and Address::flat survives the codec just if the name has no
\* dot and no bracket (wire.rs:71-115, 192-230).
AddressesAreRead == Addr!TypeOK /\ Addr!ParsesTheGrammar /\ Addr!DisplayInverts /\ Addr!FlatSurvives

\* instance_address keeps what the switchboard tells instances apart by, and
\* cache_keys takes out the pluses of a key and nothing else (wire.rs:51-58, 184-189).
InstanceIsKept == Addr!InstanceIsKept /\ Addr!CacheKeysCompose

\* The Python mirror's Address.parse reads what a node writes
\* (rust_pipeline_federation.py:47).
MirrorReadsAddresses == Addr!MirrorReadsAddresses
=============================================================================
