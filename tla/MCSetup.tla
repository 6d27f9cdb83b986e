-------------------------------- MODULE MCSetup --------------------------------
(* Two objects that start alike, two releases, a mirror that says it is of   *)
(* the second, and an edit of each shape: no override, one of the image and *)
(* of the script, one of both that no registry knows, one of the version.   *)
EXTENDS Setup, TLC

MCVersion == {"4.18", "4.19"}
MCImage == {"image18", "image19", "mirror19"}
MCImageOf == "4.18" :> "image18" @@ "4.19" :> "image19"
MCVersionOf == "image18" :> "4.18" @@ "image19" :> "4.19" @@ "mirror19" :> "4.19"
MCFirstReleases == {[version |-> "4.18", image |-> "image18"]}
MCClusterReleases == MCFirstReleases \union {[version |-> "4.19", image |-> "image19"]}
MCMentions ==
    "etcd" :> {} @@ "aws-csi-driver" :> {"aws-"} @@ "vsphere-csi-driver" :> {"vsphere-"}
    @@ "ibmcloud-machine-controllers" :> {"ibmcloud-"}
MCNamesOf == "image18" :> {"etcd", "vsphere-csi-driver"}
             @@ "image19" :> {"etcd", "aws-csi-driver", "ibmcloud-machine-controllers"}
             @@ "mirror19" :> {"aws-csi-driver", "vsphere-csi-driver"}
MCPlatforms == {"AWS"}

NewConfig(version, image, script) ==
    [namespace |-> "default", version |-> version, image |-> image, script |-> script]

MCFirstConfigs == {NewConfig("", "", "")}
MCConfigs == MCFirstConfigs \union
    {NewConfig("", "mirror19", "custom"), NewConfig("4.19", "image18", ""),
     NewConfig("4.19", "", "")}
================================================================================
