---------------------------- MODULE StorageClaims ----------------------------
(***************************************************************************)
(* The local-path storage contract (storage/v1).  Two programs derive the  *)
(* directory of a claim on their own: the provisioner, which writes it     *)
(* into a PersistentVolume, and the runtime, which binds it into the pod.  *)
(* Claims are deleted and made again under the same name, the provisioner  *)
(* sees old events again, and the volume does not tell upper case from     *)
(* lower case.                                                             *)
(*                                                                         *)
(* A path is the sequence of its components, a component the sequence of   *)
(* its bytes (see DNSNames).                                               *)
(***************************************************************************)
EXTENDS DNSNames, FiniteSets

CONSTANTS Names,   \* the texts tried as a namespace and as a claim name
          MaxUID,  \* how many claims are ever made
          Nodes    \* the nodes pods run on

DefaultStorageClassName == "local-path"
ProvisionerName == "k3sm.io/local-path"
DefaultBasePath == << <<"b">>, <<"a", "b">> >>
TopologyKeyHostname == "kubernetes.io/hostname"

-----------------------------------------------------------------------------
(* The class. *)
WithDefaults(c) ==
    [c EXCEPT !.name = IF @ = "" THEN DefaultStorageClassName ELSE @,
              !.provisioner = IF @ = "" THEN ProvisionerName ELSE @,
              !.basePath = IF @ = <<>> THEN DefaultBasePath ELSE @,
              !.reclaimPolicy = IF @ = "" THEN "Retain" ELSE @,
              !.volumeBindingMode = IF @ = "" THEN "WaitForFirstConsumer" ELSE @]

DefaultLocalPathClass ==
    [name |-> DefaultStorageClassName, provisioner |-> ProvisionerName, basePath |-> DefaultBasePath,
     reclaimPolicy |-> "Retain", volumeBindingMode |-> "WaitForFirstConsumer"]

(* Every base path here is absolute; the empty one is not. *)
Validate(c) ==
    /\ c.name # "" /\ c.provisioner # "" /\ c.basePath # <<>>
    /\ c.reclaimPolicy = "Retain"
    /\ c.volumeBindingMode = "WaitForFirstConsumer"

NodeTopology_WithDefaults(t) == [t EXCEPT !.key = IF @ = "" THEN TopologyKeyHostname ELSE @]
NodeTopology_Validate(t) == t.nodeName # ""

-----------------------------------------------------------------------------
(* path.Join: the components of its arguments, with "", "." and ".." taken  *)
(* out the way path.Clean does.                                             *)
Components(s) ==
    LET split[i \in 0..Len(s)] ==
            IF i = 0 THEN << <<>> >>
            ELSE LET p == split[i - 1] IN
                 IF s[i] = "/" THEN Append(p, <<>>) ELSE [p EXCEPT ![Len(p)] = Append(@, s[i])]
    IN  split[Len(s)]

Clean(path) ==
    LET kept[i \in 0..Len(path)] ==
            IF i = 0 THEN <<>>
            ELSE CASE path[i] \in {<<>>, <<".">>} -> kept[i - 1]
                   [] path[i] = <<".", ".">> ->
                        SubSeq(kept[i - 1], 1, IF kept[i - 1] = <<>> THEN 0 ELSE Len(kept[i - 1]) - 1)
                   [] OTHER -> Append(kept[i - 1], path[i])
    IN  kept[Len(path)]

Join(base, a, b) == Clean(base \o Components(a) \o Components(b))

-----------------------------------------------------------------------------
NoPath == <<>>

(* A directory derived with the grammar applied to a lower-cased copy. *)
DataDir_FoldsFirst(c, namespace, claimName) ==
    IF isNamespaceName(ToLower(namespace)) /\ isNodeName(ToLower(claimName))
    THEN Join(IF c.basePath = <<>> THEN DefaultBasePath ELSE c.basePath, namespace, claimName)
    ELSE NoPath

(* The namespace is a DNS label, the claim a subdomain: the grammars of     *)
(* DNSNames, with the same two lengths.                                     *)
DataDir(c, namespace, claimName) ==
    IF isNamespaceName(namespace) /\ isNodeName(claimName)
    THEN Join(IF c.basePath = <<>> THEN DefaultBasePath ELSE c.basePath, namespace, claimName)
    ELSE NoPath

PVName(claim) == <<"pvc-", claim.uid>>

-----------------------------------------------------------------------------
VARIABLES class,   \* the StorageClass as its owner configured it
          made,    \* every claim ever made, in order: the position is its UID
          live,    \* the UIDs of the claims that exist
          volumes, \* the PersistentVolumes: name -> what it holds
          bound    \* the directories the runtime bound: {[uid, dir]}

vars == <<class, made, live, volumes, bound>>

Claim(uid) == [namespace |-> made[uid].namespace, name |-> made[uid].name, uid |-> uid]

Classes == [name : {""}, provisioner : {""}, basePath : {<<>>, << <<"b">> >>},
            reclaimPolicy : {"", "Delete"}, volumeBindingMode : {"", "Immediate"}]

Init ==
    /\ class \in Classes \cup {DefaultLocalPathClass}
    /\ made = <<>> /\ live = {} /\ volumes = <<>> /\ bound = {}

MakeClaim ==
    /\ Len(made) < MaxUID
    /\ \E ns, n \in Names :
         /\ \A u \in live : <<made[u].namespace, made[u].name>> # <<ns, n>>
         /\ made' = Append(made, [namespace |-> ns, name |-> n])
    /\ live' = live \cup {Len(made) + 1}
    /\ UNCHANGED <<class, volumes, bound>>

DeleteClaim == \E u \in live : live' = live \ {u} /\ UNCHANGED <<class, made, volumes, bound>>

(* The provisioner acts on an event for a claim, which may be an old one: a  *)
(* pod that uses it was scheduled to a node.  It never creates a volume      *)
(* whose name exists.                                                        *)
Provision(u, node) ==
    LET c == WithDefaults(class)
        dir == DataDir(c, made[u].namespace, made[u].name)
        topology == NodeTopology_WithDefaults([key |-> "", nodeName |-> node])
    IN  /\ Validate(c) /\ dir # NoPath /\ NodeTopology_Validate(topology)
        /\ PVName(Claim(u)) \notin DOMAIN volumes
        /\ volumes' = [v \in DOMAIN volumes \cup {PVName(Claim(u))} |->
                          IF v \in DOMAIN volumes THEN volumes[v]
                          ELSE [uid |-> u, dir |-> dir, topology |-> topology]]
        /\ UNCHANGED <<class, made, live, bound>>

(* The runtime resolves the directory from the pod alone, with the class as  *)
(* it was configured.                                                        *)
BindPod(u) ==
    LET dir == DataDir(class, made[u].namespace, made[u].name) IN
    /\ u \in live /\ dir # NoPath
    /\ bound' = bound \cup {[uid |-> u, dir |-> dir]}
    /\ UNCHANGED <<class, made, live, volumes>>

Next == \/ MakeClaim
        \/ DeleteClaim
        \/ \E u \in 1..Len(made) : BindPod(u) \/ \E node \in Nodes : Provision(u, node)
Spec == Init /\ [][Next]_vars

-----------------------------------------------------------------------------
OnDisk(path) == [i \in 1..Len(path) |-> ToLower(path[i])]
SameClaim(u, w) == <<made[u].namespace, made[u].name>> = <<made[w].namespace, made[w].name>>

(* Two claims of different names are two directories, also on a volume that  *)
(* does not tell "A" from "a": a pod never reads another claim's data.       *)
ClaimsAreApartOnDisk ==
    \A x, y \in bound : ~SameClaim(x.uid, y.uid) => OnDisk(x.dir) # OnDisk(y.dir)

(* What the runtime bound is a directory two levels under the base, never    *)
(* one beside it.                                                            *)
BoundUnderTheBase ==
    LET base == WithDefaults(class).basePath IN
    \A x \in bound : Len(x.dir) = Len(base) + 2 /\ SubSeq(x.dir, 1, Len(base)) = base

(* The pod finds its data: the directory the runtime derives for a claim is  *)
(* the one the provisioner wrote into its volume, though one of them filled  *)
(* in the class and the other did not.                                       *)
RuntimeAndProvisionerAgree ==
    \A x \in bound : \A v \in DOMAIN volumes :
        SameClaim(x.uid, volumes[v].uid) => x.dir = volumes[v].dir

(* A replayed event finds the claim's own volume: every claim that has a     *)
(* directory can get a volume of its own, whatever was made and deleted      *)
(* under its name before.                                                    *)
VolumeNamesOneClaim ==
    \A u \in 1..Len(made) : PVName(Claim(u)) \in DOMAIN volumes => volumes[PVName(Claim(u))].uid = u
=============================================================================
