------------------------------- MODULE MCVsa -------------------------------
(* Instances of VsaRetriever, and with it Vsa, for TLC. *)
EXTENDS VsaRetriever

Pinned == {"index", "arm", "single"}
MCChildren == [i \in {"index"} |-> {"arm"}]
MCAliases == [r \in {"app:tag"} |-> "index"]
MCDigestOf == [r \in Pinned |-> r]

Comp(image, ok) == [image |-> image, ok |-> ok, validated |-> image]

\* An index, one of its manifests, the name of the index that was not accessible when it
\* was validated, and another image twice.
MCReport == << Comp("app:tag", FALSE), Comp("arm", TRUE), Comp("index", TRUE) >>
MCTwice == << Comp("single", TRUE), Comp("single", TRUE) >>

Flag(backend, base, params) ==
  [backend |-> backend, base |-> base, params |-> params, wellFormed |-> TRUE]
NoParams == [k \in {} |-> ""]
Rekor == Flag("rekor", "", NoParams)
BadTimeout == Flag("rekor", "", [k \in {"timeout"} |-> "junk"])
BadServer == Flag("rekor", "junk", NoParams)
TwoServers == Flag("rekor", "", [k \in {"server", "url"} |-> IF k = "url" THEN "public" ELSE "own"])
TwoDirs == Flag("local", "/vsa", [k \in {"dir", "path"} |-> k])
Unknown == Flag("s3", "bucket", NoParams)

Setup(report_, flags, strict, old, retrieve) ==
  [report |-> report_, flags |-> flags, strict |-> strict, log |-> old, retrieve |-> retrieve,
   maxFaults |-> IF retrieve THEN 0 ELSE 2, server |-> "public", digest |-> "single"]

Body(kind, api, envelope, sigs, legacy) ==
  [kind |-> kind, api |-> api, envelope |-> envelope, sigs |-> sigs, legacy |-> legacy]
Entry(body, att, time) ==
  [server |-> "public", digest |-> "single", time |-> time, publicKey |-> SignerKey, body |-> body, att |-> att]
Malformed == [Setup(SubSeq(MCTwice, 1, 1), <<Rekor>>, TRUE, << >>, TRUE) EXCEPT !.digest = "malformed"]
OldVsa == [digest |-> "single", image |-> "single", results |-> {}]
Parts == {"payloadType", "signatures"}

\* Logs with the kinds of entry that classifyEntryKind tells apart.
Unread == << Entry(Body("unreadable", None, {}, 0, {}), OldVsa, NoTime),
             Entry(Body("intoto", None, Parts \cup {"payload"}, 1, {}), OldVsa, 1) >>
Older == << Entry(Body("dsse", "0.0.1", {}, 1, {}), NoStatement, 1),
            Entry(Body("intoto", "0.0.1", {"payload"}, 0, {}), OldVsa, 1) >>
Odd == << Entry(Body(None, None, Parts, 1, {}), OldVsa, NoTime),
          Entry(Body("intoto", "0.0.2", Parts, 0, {}), OldVsa, 1) >>
Again == << Entry(Body("intoto", "0.0.2", Parts, 1, {}), OldVsa, 1) >>

\* The command alone, and then the command and a retrieval of what it uploads.
MCSetups ==
  { Setup(MCReport, <<Unknown, BadServer, Rekor>>, TRUE, << >>, FALSE),
    Setup(MCTwice, <<BadTimeout, TwoDirs, TwoServers>>, TRUE, << >>, FALSE),
    Setup(MCReport, << >>, FALSE, << >>, FALSE) }
  \cup { Malformed }
  \cup { Setup(SubSeq(MCTwice, 1, 1), <<Rekor>>, TRUE, old, TRUE) : old \in {Unread, Older, Odd, Again} }
=============================================================================
