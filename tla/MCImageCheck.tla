---------------------------- MODULE MCImageCheck ----------------------------
(* Instances of ImageCheck for TLC.                                       *)
EXTENDS ImageCheck, TLC

Id(i, s) == [issuer |-> i, subject |-> s]
KeyBy(k) == [key |-> k, identity |-> NoIdentity]
IdBy(id) == [key |-> Empty, identity |-> id]
Me == Id("issuer", "me")

\* Two references to one key, and the PEM of another
MCMaterial == "k8s" :> "k1" @@ "pem1" :> "k1" @@ "pem2" :> "k2"
MCPem == "k1" :> "pem1" @@ "k2" :> "pem2"

Cert(id, names, other, ok) == [id |-> id, names |-> names, otherName |-> other, decodes |-> ok]
TwoNames == Cert("c1", NameKinds, TRUE, TRUE)
BadCert == Cert("c2", {}, FALSE, FALSE)

Layer(by, log, sig, cert) ==
    [by |-> by, log |-> log, sig |-> sig, cert |-> cert, chain |-> <<"root", Empty>>,
     readable |-> TRUE]
Statement(type, slsa, conforms) ==
    [predicateType |-> type, json |-> TRUE, slsa |-> slsa, conforms |-> conforms]
Envelope == <<[sig |-> "e1", keyid |-> "i1"], [sig |-> "e2", keyid |-> "i2"]>>
Att(layer, statement) ==
    [by |-> layer.by, log |-> layer.log, sig |-> layer.sig, cert |-> layer.cert,
     chain |-> layer.chain, readable |-> layer.readable,
     payload |-> TRUE, envelope |-> Envelope, statement |-> statement]

Good == Statement("slsa", TRUE, TRUE)
Nonconforming == Statement("slsa", TRUE, FALSE)
NoSLSA == Statement("slsa", FALSE, TRUE)
Spdx == Statement("spdx", FALSE, FALSE)

\* Signed with the key and recorded; signed with the key only; keyless
Keyed == Layer(KeyBy("k1"), "tuf", "s1", NoCert)
Unlogged == Layer(KeyBy("k1"), Empty, "s2", NoCert)
Foreign == Layer(KeyBy("k2"), "own", "s3", NoCert)
Keyless == Layer(IdBy(Me), "tuf", Empty, TwoNames)
Damaged == Layer(KeyBy("k1"), "tuf", "s4", BadCert)
Illegible == [Keyed EXCEPT !.readable = FALSE]
Bare == Layer(KeyBy("k1"), "tuf", Empty, NoCert)

Image(d, parent, sigs, atts) ==
    [config |-> d, files |-> d, parent |-> parent,
     signatures |-> sigs, attestations |-> atts]

Parent == Image("d2", Nothing, <<Foreign>>, <<Att(Bare, Spdx)>>)

MCWorlds ==
    {"d1" :> Image("d1", "d2", sigs, atts) @@ "d2" :> Parent :
       sigs \in {<<>>, <<Keyed, Unlogged>>, <<Keyless, Foreign>>, <<Keyed, Damaged>>,
                 <<Illegible>>},
       atts \in {<<>>, <<Att(Bare, Good), Att(Keyless, Good)>>,
                 <<Att(Keyed, Nonconforming), Att(Unlogged, Spdx)>>,
                 <<Att(Keyless, Good), Att(Bare, NoSLSA)>>,
                 <<[Att(Keyless, Spdx) EXCEPT !.payload = FALSE]>>}}

P(kind, key, id, ignore) ==
    [kind |-> kind, key |-> key, identity |-> id, rekor |-> Empty, ignoreRekor |-> ignore]

MCPolicies ==
    {P("image", "k8s", NoIdentity, FALSE), P("image", "pem1", NoIdentity, TRUE),
     P("image", Empty, Me, FALSE), P("image", Empty, Id("issuer", Empty), FALSE),
     P("input", Empty, Me, FALSE), P("input", "pem1", NoIdentity, FALSE)}

Term(ignore, props) == [ignoreRekor |-> ignore, props |-> props]
MCRuleTerms ==
    {Term(FALSE, [public_key |-> "pem2", rekor_public_key |-> "own"]),
     Term(TRUE, [public_key |-> "pem2", rekor_public_key |-> NoKey]),
     Term(TRUE, [certificate_identity |-> "me", certificate_oidc_issuer |-> NotString])}
=============================================================================
