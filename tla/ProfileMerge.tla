---------------------------- MODULE ProfileMerge ----------------------------
(***************************************************************************)
(* The YAML of one profile, to which properties are added or in which they *)
(* are updated one request after the other (processProperty in             *)
(* pkg/api/service/config_service.go).                                     *)
(***************************************************************************)
EXTENDS FlatProperties

CONSTANTS
    StartTrees,     \* what the profile can hold at first
    Requested,      \* the trees that are merged into it
    NewTrees        \* what a merge is compared with its reference for

ASSUME ProfileAssumption ==
    StartTrees \subseteq Trees /\ Requested \subseteq Trees /\ NewTrees \subseteq Trees

VARIABLE yaml

Init == yaml \in StartTrees

Add(new) == yaml' = recursiveAdd(yaml, new)

Merge(new) == ~UpdatePanics(yaml, new) /\ yaml' = recursiveAddAndUpdate(yaml, new)

Next == \E new \in Requested : Add(new) \/ Merge(new)

Spec == Init /\ [][Next]_yaml

-----------------------------------------------------------------------------
(* "Only adds to the old YAML" (the comment on processProperty): a key     *)
(* that is there keeps its value, also below other keys and where only one *)
(* of the two is a map, and all else that is asked for is added.           *)
AddOnlyAdds == \A new \in NewTrees : IsAdd(yaml, new, recursiveAdd(yaml, new))

(* "What has a new value is updated, then the rest is added" (the same     *)
(* comment), where the merge does not panic and but for two exceptions: a  *)
(* key whose old value is null stays null, and one that had a map keeps it *)
(* when it is asked to be a leaf.                                          *)
UpdateTakesValues ==
    \A new \in NewTrees : ~UpdatePanics(yaml, new) =>
        IsUpdate(yaml, new, recursiveAddAndUpdate(yaml, new))

(* What the comment says, without the exceptions: an update gets through   *)
(* and on every path there is then what it asks for.                       *)
UpdateTakesAll ==
    \A new \in NewTrees :
        LET merged == recursiveAddAndUpdate(yaml, new) IN
        /\ ~UpdatePanics(yaml, new)
        /\ \A p \in PathsOfAny(yaml, new, merged) :
                Same(NodeAt(merged, p), Wanted(yaml, new, p))

(* Flattening loses no property and makes up none, in whatever order the   *)
(* maps are ranged over, and the order matters only where two keys come to *)
(* one property.                                                           *)
FlatteningKeepsAll ==
    LET flats == ConvertRecursiveMapToSingleMap(yaml) IN
    /\ \A flat \in flats : IsFlat(yaml, flat)
    /\ Unambiguous(yaml) => Cardinality(flats) = 1

(* What a service was served it is served after an addition, where the     *)
(* result spells no property in two ways.                                  *)
AddKeepsServed ==
    \A new \in Requested :
        LET merged == recursiveAdd(yaml, new) IN
        Unambiguous(merged) =>
            \A old \in ConvertRecursiveMapToSingleMap(yaml),
               flat \in ConvertRecursiveMapToSingleMap(merged) :
                appendConfigServerAddition(Entries(old))
                    \subseteq appendConfigServerAddition(Entries(flat))

(* A gateway's configuration is split over two config maps by Save and put *)
(* together again by Poll: the gateway is served the value on every path   *)
(* of what was saved, and of a list among the routes that at every place,  *)
(* and nothing else, but for the properties that every service is served.  *)
(* This is so if no property is spelled in two ways and no route with      *)
(* dots, and neither Save nor Poll panics.                                 *)
SplitIsServed ==
    ~SeparatePanics(yaml) /\ RoutesNested(yaml) /\ Unambiguous(yaml) =>
        \A own \in ConvertRecursiveMapToSingleMap(WithoutRoutes(yaml)),
           routes \in ConvertRecursiveMapToSingleMap(RouteTree(yaml)) :
            ~ZuulPanics(routes) =>
                GatewayProperties(own, routes) = appendConfigServerAddition(Saved(yaml))
=============================================================================
