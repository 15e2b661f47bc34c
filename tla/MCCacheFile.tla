---------------------------- MODULE MCCacheFile ----------------------------
(* Instance of CacheFile for TLC: a full build that found "lib" changed, a  *)
(* workspace build that computed call sites for the old "lib", and a scan   *)
(* that no longer saw "app".                                                *)
EXTENDS CacheFile

CONSTANTS b1, b2, b3

MCPaths == {"app", "lib"}
E(h) == [sha |-> h, sites |-> "none"]
None == [sha |-> "none", sites |-> "none"]
NoSites == [f \in MCPaths |-> "none"]

MCBatch ==
  [p \in {b1, b2, b3} |->
     CASE p = b1 -> [changed |-> [app |-> None, lib |-> E("new")], scanned |-> MCPaths,
                    scope |-> MCPaths, sites |-> NoSites]
       [] p = b2 -> [changed |-> [app |-> None, lib |-> None], scanned |-> {"lib"},
                    scope |-> {"lib"}, sites |-> [app |-> "none", lib |-> "old"]]
       [] p = b3 -> [changed |-> [app |-> None, lib |-> E("new")], scanned |-> {"lib"},
                    scope |-> MCPaths, sites |-> [app |-> "none", lib |-> "new"]]]
MCStart == [app |-> E("old"), lib |-> E("old")]
=============================================================================
