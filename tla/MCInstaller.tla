---------------------------- MODULE MCInstaller ----------------------------
EXTENDS Installer
CONSTANTS v2, bundle, image

Line(etcdFiles, tlsFiles) ==
    [tag |-> v2, replicas |-> 2, pullPolicy |-> "Always", content |-> bundle,
     etcdFiles |-> etcdFiles, tlsFiles |-> tlsFiles]

\* Both bundles, and one with a file missing.
MCCommandLines == {Line(BundleFiles, BundleFiles), Line({"ca", "cert"}, {})}

\* Its own images and service type; replicas that an etcd in the pod does not
\* allow.
MCEmbedded ==
    {[WithSafe(v2, 1, None, None) EXCEPT !.serviceType = "NodePort",
                                         !.controllerImage = image, !.apiServerImage = image],
     [OptionsCommon(v2) EXCEPT !.replicas = 2]}

MCKubeVersions ==
    {[major |-> 1, minor |-> 13, suffix |-> "+"], [major |-> 1, minor |-> 7, suffix |-> ""]}

\* The images of these options can be told from their tags.
ASSUME TagsAssumption == TagsTell
=============================================================================
