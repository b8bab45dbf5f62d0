--------------------------- MODULE MCFeatureProxy ---------------------------
(* FeatureProxy with the constants of a .cfg file; the constant reports    *)
(* are interchangeable.                                                    *)
EXTENDS FeatureProxy, TLC

CONSTANTS MAC, INFO   \* two of them

SameReports == Permutations(StaticIds)

(* What the safety properties and the next steps depend on: not the places *)
(* of the ring out of use.                                                 *)
Seen == <<cacheVars, Waiting, getHead, getTail, setQueue, bridgeVars, padVars,
          lastSet, usbResets>>
=============================================================================
