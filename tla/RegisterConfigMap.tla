-------------------------- MODULE RegisterConfigMap --------------------------
(***************************************************************************)
(* The config map "go-register-server", where the instances registered or  *)
(* amended over HTTP outlive the process.  It is kept by the Kubernetes    *)
(* API server: a writer Gets a copy, edits the copy and Updates the map    *)
(* with it.  The copy carries the resource version it was read at, and an  *)
(* Update whose version is not the current one is refused.                 *)
(***************************************************************************)
EXTENDS ApplicationRepository

CONSTANT ApiErrors      \* a call to the API server can fail at any time

VARIABLE registerCM     \* [version, data]: data maps an id to its instance

storeVars == <<namespaceStore, instanceStore, customInstanceStore, registerCM>>

ConfigMap == [version : Nat, data : [Ids -> Instance \cup {NoInstance}]]

NoEntries == [i \in Ids |-> NoInstance]

Without(data, i) == [data EXCEPT ![i] = NoInstance]

(* The API server accepts an Update made from this copy.                   *)
Current(copy) == copy.version = registerCM.version

Refused(copy) == ApiErrors \/ ~Current(copy)

(* An accepted Update; one that changes nothing makes no new version.  Of  *)
(* an instance whose time stamps changed nothing that is modelled may have *)
(* changed, and yet there is a new version: TouchCM.                       *)
WriteCM(data) ==
    registerCM' = IF data = registerCM.data THEN registerCM
                  ELSE [version |-> registerCM.version + 1, data |-> data]

TouchCM(data) ==
    registerCM' = [version |-> registerCM.version + 1, data |-> data]

=============================================================================
