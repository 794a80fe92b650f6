----------------------------- MODULE MCPrepare -----------------------------
(* Instances of Prepare for TLC.                                          *)
EXTENDS Prepare, TLC

CONSTANTS image, short, tag, pin, moving, newpin, child1, child2, lost, gone,
          dimage, dindex, dnew, dchild1, dchild2

MCImages == {image, short, tag, pin, moving, newpin, child1, child2, lost, gone}
MCDigests == {dimage, dindex, dnew, dchild1, dchild2}

\* short and tag are two spellings of one reference to an index, pin is its digest; child1 is
\* also given by itself; moving has the index, then another of child2 alone, then an image
MCRank ==
    child1 :> 1 @@ child2 :> 2 @@ gone :> 3 @@ image :> 4 @@ lost :> 5 @@ pin :> 6 @@ tag :> 7 @@
    moving :> 8 @@ newpin :> 9 @@ short :> 10
MCKind == [d \in MCDigests |-> IF d \in {dindex, dnew} THEN "index" ELSE "image"]
MCManifests ==
    [d \in MCDigests |-> CASE d = dindex -> <<dchild1, dchild2>> [] d = dnew -> <<dchild2>> [] OTHER -> <<>>]
MCAccess ==
    [i \in MCImages |-> CASE i = lost -> "unreadable" [] i = gone -> "gone" [] OTHER -> "ok"]
MCPull ==
    [i \in MCImages |-> CASE i \in {short, tag, pin, gone} -> {dindex} [] i = newpin -> {dnew}
                          [] i = moving -> {dindex, dnew, dimage}
                          [] i = child1 -> {dchild1} [] i = child2 -> {dchild2} [] OTHER -> {dimage}]
MCRefName == [i \in MCImages |-> IF i = short THEN tag ELSE i]
\* All of one repository
PinnedHere ==
    dimage :> image @@ dindex :> pin @@ dnew :> newpin @@ dchild1 :> child1 @@ dchild2 :> child2
MCPinned == [i \in MCImages |-> PinnedHere]

\* IMAGE_INDEX_WORKERS: no limit, none at all, one, two
MCLimits == {-1, 0, 1, 2}

MCNames == {"", "Unnamed", "a", "b", "c", "d", "e", "f", "g", "h", "i"}

MCContexts == [default |-> "here", flag |-> "there"]

Described1(cs) == [kind |-> "spec", components |-> cs]
FromCluster(cs, ns, found) ==
    [kind |-> "cluster", components |-> cs, ref |-> [namespace |-> ns, name |-> "snap", found |-> found]]
Broken == [kind |-> "broken", components |-> <<>>]
Nothing == [s \in Range(Sources) |-> NotGiven]
Only(i) == <<Component("Unnamed", i)>>

MCInputs ==
    {Nothing,
     [Nothing EXCEPT !["image"] = Described1(Only(tag))],
     [Nothing EXCEPT !["images"] = Described1(<<Component("a", image), Component("b", image),
                                                Component("", lost)>>),
                     !["image"] = Described1(Only(lost)),
                     !["snapshot"] = FromCluster(<<Component("c", lost), Component("d", image)>>,
                                                 "", {"here"})],
     [Nothing EXCEPT !["image"] = Described1(Only(moving))],
     [Nothing EXCEPT !["images"] = Described1(<<Component("a", moving), Component("b", short)>>)],
     [Nothing EXCEPT !["images"] = Described1(<<Component("a", short), Component("b", tag)>>)],
     [Nothing EXCEPT !["file"] = Described1(<<Component("", tag), Component("e", pin)>>),
                     !["json"] = Described1(<<Component("f", tag)>>)],
     [Nothing EXCEPT !["json"] = Described1(<<Component("g", tag), Component("h", child1),
                                              Component("i", gone)>>)],
     [Nothing EXCEPT !["images"] = Described1(Only(image)), !["file"] = Broken],
     [Nothing EXCEPT !["image"] = Described1(Only(image)),
                     !["snapshot"] = FromCluster(<<>>, "", {"there"})]}

Group(data, broken) == [ruleData |-> data, broken |-> broken]
SpecOf(key, id, gs) == [key |-> key, identity |-> id, rekor |-> "", groups |-> gs]
Whole(w) == [issuer |-> w, subject |-> w]

Object(parses, conformant, s) ==
    [kind |-> "object", parses |-> parses, conformant |-> conformant, spec |-> s,
     wrapped |-> FALSE, apiVersion |-> FALSE]
Resource(apiVersion, s) ==
    [kind |-> "object", parses |-> TRUE, conformant |-> TRUE, spec |-> s,
     wrapped |-> TRUE, apiVersion |-> apiVersion]
EmptyText == [kind |-> "empty"]
Named(ns, found, s) ==
    [kind |-> "name", ref |-> [namespace |-> ns, name |-> "policy", found |-> found], spec |-> s]

Spec1 == SpecOf("", [issuer |-> "", subject |-> "policy"],
                <<Group("own" :> "own" @@ "key" :> "own", FALSE), Group(<<>>, FALSE)>>)
Spec2 == SpecOf("policykey", Whole("policy"), <<Group(<<>>, TRUE)>>)
Spec3 == SpecOf("", Whole("policy"), <<>>)

Odd == [kind |-> "object", parses |-> TRUE, conformant |-> TRUE, spec |-> Spec1,
        wrapped |-> FALSE, apiVersion |-> TRUE]

Ref(form, ext, downloads, t) ==
    [form |-> form, ext |-> ext, downloads |-> downloads, text |-> t]

MCPolicyRefs ==
    {Ref("json", FALSE, FALSE, Object(TRUE, TRUE, Spec1)),
     Ref("json", FALSE, FALSE, Object(TRUE, FALSE, Spec1)),
     Ref("git", FALSE, TRUE, Object(TRUE, TRUE, Spec2)),
     Ref("json", FALSE, FALSE, Resource(FALSE, Spec1)),
     Ref("file", TRUE, FALSE, Resource(TRUE, Spec1)),
     Ref("json", FALSE, FALSE, Odd),
     Ref("git", FALSE, FALSE, EmptyText),
     Ref("http", FALSE, TRUE, EmptyText),
     Ref("file", TRUE, FALSE, EmptyText),
     Ref("file", TRUE, FALSE, Object(TRUE, TRUE, Spec3)),
     Ref("file", FALSE, FALSE, Named("", {}, Spec1)),
     Ref("other", FALSE, FALSE, EmptyText),
     Ref("other", FALSE, FALSE, Object(FALSE, FALSE, Spec1)),
     Ref("other", FALSE, FALSE, Named("", {"here"}, Spec3)),
     Ref("other", FALSE, FALSE, Named("ns", {"ns"}, Spec1))}

Options(key, id, time, kubeconfig) ==
    [key |-> key, identity |-> id, rekor |-> "", ignoreRekor |-> FALSE, time |-> time,
     kubeconfig |-> kubeconfig]

MCOptionSets ==
    {Options("flagkey", NoIdentity, "now", "default"),
     Options("", [issuer |-> "flag", subject |-> ""], "date", "default"),
     Options("", Whole("flag"), "now", "flag"),
     Options("", NoIdentity, "bad", "default"),
     Options("", NoIdentity, "now", "default")}

Item(assigns, loads, key, value) ==
    [assigns |-> assigns, loads |-> loads, key |-> key, value |-> value]

MCExtraData ==
    {<<>>,
     <<Item(TRUE, TRUE, "key", "first"), Item(TRUE, TRUE, "key", "last"),
       Item(TRUE, TRUE, "other", "x")>>,
     <<Item(FALSE, TRUE, "key", "x"), Item(TRUE, FALSE, "other", "y")>>}
=============================================================================
