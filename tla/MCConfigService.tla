-------------------------- MODULE MCConfigService --------------------------
(* Instances of ConfigService for TLC.                                     *)
EXTENDS ConfigService

CONSTANTS h1, h2, v1, v2, list, apiGateway, zuulRoute, n1, n2, default, dev

Items == list :> <<v1, v2>>

TwoNamespaces == <<n1, n2>>

R == <<"r">>
S == <<"s">>
Keywords == {R, S, PathNode, ZuulNode, RoutesNode}

RouteTo(v) == Single(PathNode, v)

(* YAML of zuul-route, of a gateway, and of either with a list.            *)
OneRoute == Single(ZuulNode, Single(RoutesNode, Single(R, RouteTo(v1))))
TwoRoutes ==
    Single(ZuulNode, Single(RoutesNode, [Single(R, RouteTo(v2)) EXCEPT ![S] = RouteTo(v2)]))
Gateway ==
    Single(ZuulNode, [Single(RoutesNode, Single(S, RouteTo(v2))) EXCEPT ![R] = v1])
Plain == Single(R, v1)
Listed == [Single(R, list) EXCEPT ![S] = v2]

(* Nothing, or zuul-route where it was made, alone or with the gateway's   *)
(* config map.                                                             *)
Maps(route, gateway) ==
    [k \in Keys |-> IF k = <<zuulRoute, n2>> THEN route
                    ELSE IF k = <<apiGateway, n1>> THEN gateway ELSE NoMap]

Starts ==
    {Maps(NoMap, NoMap)}
        \cup {Maps(newV1ConfigMap(default, OneRoute), gateway) :
                gateway \in {NoMap, newV1ConfigMap(default, Listed)}}

SaveOf(service, namespace, profile, policy, yaml) ==
    [service |-> service, namespace |-> namespace, profile |-> profile,
     policy |-> policy, yaml |-> yaml]

ClientSaves ==
    {SaveOf(apiGateway, n1, default, policy, Gateway) : policy \in Policies}
        \cup {SaveOf(apiGateway, n1, dev, "override", Plain),
              SaveOf(apiGateway, n1, default, "update", Listed),
              SaveOf(apiGateway, n1, default, "override", NullYaml),
              SaveOf(zuulRoute, n2, default, "add", TwoRoutes),
              SaveOf(zuulRoute, n2, default, "override", BadYaml)}

RouteEdits == {[name |-> R, path |-> v2], [name |-> S, path |-> v2],
               [name |-> R, path |-> NoKey]}

ASSUME OthersWriteNoRoutes

HandlerSymmetry == Permutations(Handlers)
=============================================================================
