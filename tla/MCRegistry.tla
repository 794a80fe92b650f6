---------------------------- MODULE MCRegistry ----------------------------
(* An instance of Registry for TLC.                                       *)
EXTENDS Registry, TLC

CONSTANTS t1, image1, image2, index1, index2, blob1, layer1

MCTags == {t1}
MCDigests == {image1, image2, index1, index2, blob1, layer1}
MCPaths == {"manifests", "config"}

File(dir, supported, structured) ==
    [dir |-> dir, supported |-> supported, structured |-> structured]

Content(kind, gzip, subject, platform, base, baseDigest, child, layers) ==
    [kind |-> kind, gzip |-> gzip, subject |-> subject, platform |-> platform,
     base |-> base, baseDigest |-> baseDigest, child |-> child, layers |-> layers]

\* index1 has an image for the platform, index2 has none
MCStore ==
    image1 :> Content("image", FALSE, TRUE, FALSE, "named", TRUE, NoDigest,
                      << {File("manifests", TRUE, TRUE), File("config", TRUE, FALSE)},
                         {File("config", TRUE, TRUE), File("other", TRUE, TRUE)} >>) @@
    image2 :> Content("image", FALSE, FALSE, TRUE, "none", FALSE, NoDigest, <<>>) @@
    index1 :> Content("index", FALSE, TRUE, FALSE, "none", FALSE, image1, <<>>) @@
    index2 :> Content("index", FALSE, FALSE, FALSE, "none", FALSE, NoDigest, <<>>) @@
    blob1  :> Content("blob", FALSE, FALSE, FALSE, "none", FALSE, NoDigest, <<>>) @@
    layer1 :> Content("blob", TRUE, FALSE, FALSE, "none", FALSE, NoDigest, <<>>)

Ask(fn, ref) == [fn |-> fn, ref |-> ref]

MCPolicy ==
    {Ask("descriptor", t1), Ask("manifest", t1), Ask("index", t1), Ask("blob", t1),
     Ask("blob", blob1), Ask("blob", layer1), Ask("blob", image1), Ask("descriptor", image2),
     Ask("manifest", index1), Ask("manifest", index2), Ask("config", index1),
     Ask("files", index1), Ask("files", image1), Ask("files", image2),
     Ask("parent", image1), Ask("parent", image2), Ask("config", image1)}

MCMinInt == -32

Setting(maxWait, maxRetry, duration, factor, jitter) ==
    [MaxWait |-> maxWait, MaxRetry |-> maxRetry, Duration |-> duration,
     Factor |-> factor, Jitter |-> jitter]

\* Plain settings; a base longer than the cap whose powers overflow, with a
\* negative result; no retries, which is no request at all
MCSettings ==
    {Setting(6, 2, 2, 200, 50), Setting(5, 1, 9, 450, 100), Setting(6, 0, 2, 200, 50)}
=============================================================================
