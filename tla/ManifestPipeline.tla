--------------------------- MODULE ManifestPipeline ---------------------------
(***************************************************************************)
(* One pass of verify_manifest_bound (c2pa-validate/lib.rs) over the active *)
(* manifest, from the claim box to the published report.  Each action is    *)
(* one stage of the pass, in the order of the code; what a stage reads from *)
(* the store, the asset, the caller's options or the network is a field of  *)
(* the call, chosen initially.  Statuses are their C2PA codes.              *)
(*                                                                          *)
(* The fields of a call:                                                    *)
(*   profile   mode, compliance bar and specification version               *)
(*   binding   what stands for the content: "asset" (the file's bytes, or   *)
(*             a store's own when it declares an ordinary hash of them),    *)
(*             "prehashed" (a digest of them), "hostless" (a store with no  *)
(*             host and no ordinary hash), "deferred", "caller" or          *)
(*             "storeOnly"                                                  *)
(*   asset     how the content compares: with the "primary" binding, only   *)
(*             with the multi-asset "fallback", with "neither"; or the      *)
(*             binding is "malformed"; or the caller's evidence is "stray", *)
(*             about another store or binding                               *)
(*   multi     where a multi-asset hash is declared, or "none"              *)
(*   declared  where the hard binding is declared, or "none"                *)
(*   parents   the parentOf chain of an update manifest, up to the first    *)
(*             standard manifest: how each is linked from its child, and    *)
(*             the failures of its own assertion bindings                   *)
(*   claim, structure, references, findings, identityFailures               *)
(*             failures the respective checks find in the active manifest   *)
(*   conformant, semver, evidenceRejected, signed                           *)
(*             the declared version's rules hold, the version reads, the    *)
(*             store's revocation evidence is too large, a signature is     *)
(*             where the claim says                                         *)
(*   header, tokens                                                         *)
(*             time-stamp tokens of the signature and of the store          *)
(*   stampMalformed                                                         *)
(*             a time-stamp assertion outside the ingredients does not read *)
(*   leaf, verification, window, caWindow, anchors, allowed                 *)
(*             the signing certificate, the signature, the instants at      *)
(*             which the leaf and its issuers are valid, what the caller    *)
(*             trusts                                                       *)
(*   staples, onlineLeaf, onlineCaRevoked                                   *)
(*             verified embedded and online OCSP answers                    *)
(*   unboundFragments                                                       *)
(*             fragments were given that the manifest's binding cannot cover *)
(***************************************************************************)
EXTENDS Naturals, Sequences

CONSTANTS
  None,      \* no value
  Instants,  \* points in time
  Now,       \* the validation time of the call
  Calls      \* the calls considered

VARIABLES
  call,      \* the manifest, its store and the caller's inputs
  pc,        \* the next stage
  results,   \* ValidationResults
  fatal,     \* first_fatal; structure_ok is fatal = None
  at,        \* the instant the signing certificate is judged at
  gate,      \* DeferredCapture::gate_code
  identity,  \* the identity step has run
  report     \* the published verdict, None before finish

vars == <<call, pc, results, fatal, at, gate, identity, report>>

-----------------------------------------------------------------------------
(* Status codes and the results they are collected in.                      *)

NoResults == [failure |-> {}, informational |-> {}, success |-> {}]

\* Appending to the three lists of ValidationResults.
With(r, failures, infos, successes) ==
  [failure       |-> r.failure \union failures,
   informational |-> r.informational \union infos,
   success       |-> r.success \union successes]

If(condition, codes) == IF condition THEN codes ELSE {}

\* The first of some positions
First(positions) == CHOOSE i \in positions : \A j \in positions : i <= j

\* A mismatch marked external_data: the same code to has_failure, another
\* one to the verdicts.
ExternalMismatch == "assertion.hashedURI.mismatch:external_data"
HashedUriMismatch == {"assertion.hashedURI.mismatch", ExternalMismatch}

Generous(p) == p.mode = "regular" /\ p.compliance = "core"

Is25(p) == p.version = "2.5"

IsUpdate(c) == c.parents # <<>>

Captures(c) == c.binding = "deferred"

\* The posture's reading of "the signature may be used".
InValidity(c, t) ==
  /\ c.leaf # "none"
  /\ t \in c.window
  /\ c.anchors = "path" => t \in c.caWindow

Usable(c, f, t) ==
  /\ c.leaf # "none" /\ c.verification = "ok"
  /\ f = None
  /\ Generous(c.profile) \/ InValidity(c, t)

-----------------------------------------------------------------------------
(* The verdicts: pure functions of the results.                             *)

RegularIntegrityCaveats ==
  {"signingCredential.untrusted", "claimSignature.outsideValidity",
   "signingCredential.ocsp.skipped", "signingCredential.ocsp.revoked",
   "timeStamp.untrusted", "timeStamp.outsideValidity",
   "com.encypher.conformance.revocationInformationMissing", "com.encypher.conformance.trustedTimeStampMissing",
   "com.encypher.conformance.outOfScope", "com.encypher.conformance.specVersionNonConformant"}

IdentityScoped == {"cawg.identity.failure"}

ExternalDataScoped == {"assertion.inaccessible", ExternalMismatch}

Caveats == RegularIntegrityCaveats \union IdentityScoped \union ExternalDataScoped

ConstructionInvalidating(failures) == failures \ Caveats

IntegrityInvalidating(failures, p) ==
  IF Generous(p) THEN ConstructionInvalidating(failures)
  ELSE failures \ ({"signingCredential.untrusted"} \union IdentityScoped
                     \union ExternalDataScoped)

ComputeState(r, p) ==
  IF IntegrityInvalidating(r.failure, p) # {} THEN "Invalid"
  ELSE IF "signingCredential.trusted" \in r.success THEN "Trusted"
  ELSE "Valid"

StrictCredentialFailure(r, p) ==
  /\ ~Generous(p)
  /\ r.failure \intersect
       {"signingCredential.ocsp.revoked", "claimSignature.outsideValidity"} # {}

ProvenanceIntegrity(r, p) ==
  IF StrictCredentialFailure(r, p) \/ ConstructionInvalidating(r.failure) # {}
  THEN "invalid" ELSE "valid"

ProvenanceTrust(r, p) ==
  IF /\ ProvenanceIntegrity(r, p) = "valid"
     /\ "signingCredential.trusted" \in r.success
     /\ "signingCredential.ocsp.revoked" \notin r.failure
  THEN "trusted" ELSE "untrusted"

\* hard_binding of the facade's report: an unbound segment or refused caller
\* evidence outranks a match, a match outranks a mismatch.
HardBindingStatus(r) ==
  IF r.failure \intersect {"livevideo.segment.invalid",
                           "com.encypher.hardBinding.callerEvidenceMismatch"} # {}
    THEN "mismatch"
  ELSE IF r.success \intersect {"assertion.dataHash.match",
                                "assertion.multiAssetHash.match"} # {}
    THEN "match"
  ELSE IF r.failure \intersect {"assertion.dataHash.mismatch",
                                "assertion.multiAssetHash.mismatch"} # {}
    THEN "mismatch"
  ELSE IF "claim.hardBindings.missing" \in r.failure THEN "missing"
  ELSE "unknown"

\* The statuses that break construction integrity: all but the caveats.
Breaking == STRING \ Caveats

TimeStamps == [scope : {"manifest", "ingredient"}, verified : BOOLEAN, time : Instants]

\* A call as its fields were described: where a check is named by the status it
\* fails with, that status is one the check pushes.
\* None is not a string; the strings it is compared with are listed again
\* because the provers do not see that a string is in STRING.
ASSUME CallsAssumption ==
  /\ None \notin STRING \union {"claim.malformed", "claimSignature.missing",
                                "claimSignature.outsideValidity",
                                "signingCredential.invalid", "good"}
  /\ Now \in Instants /\ None \notin Instants
  /\ \A c \in Calls :
       /\ c.binding \in {"asset", "prehashed", "hostless", "deferred", "caller",
                        "storeOnly"}
       /\ c.asset \in {"primary", "fallback", "neither", "malformed", "stray"}
       /\ c.multi \in {"none", "created", "gathered"}
       /\ c.declared \in {"none", "created", "gathered"}
       /\ c.claim = "ok" \/ c.claim \in Breaking
       /\ c.parents \in Seq([link : {"manifest", "signature", "legacy", "broken"},
                             findings : SUBSET Breaking])
       /\ c.structure \in Seq([code : Breaking, fatal : BOOLEAN])
       /\ c.references \subseteq STRING \ IdentityScoped
       /\ c.findings \subseteq Breaking
       /\ c.identityFailures \subseteq IdentityScoped
       /\ c.signed \in BOOLEAN
       /\ c.header \in Seq({t \in TimeStamps : t.scope = "manifest"})
       /\ c.tokens \in Seq(TimeStamps)
       /\ c.stampMalformed \in BOOLEAN
       /\ c.leaf \in {"none", "acceptable", "unacceptable"}
       /\ c.verification = "ok" \/ c.verification \in Breaking
       /\ \A which \in {"leaf", "ca"} : c.staples[which] \subseteq {"good", "revoked"}
       /\ c.onlineLeaf \in {None, "notRevoked", "revoked", "unknown", "unusable",
                           "unreachable"}
       /\ c.onlineCaRevoked \in BOOLEAN

Verdict(r, p) ==
  [state       |-> ComputeState(r, p),
   integrity   |-> ProvenanceIntegrity(r, p),
   trust       |-> ProvenanceTrust(r, p),
   hardBinding |-> HardBindingStatus(r)]

-----------------------------------------------------------------------------
(* The claim, its structure and its references.                             *)

\* An early return: the status, which overrides any gate noted so far, and
\* the report.  The later stages, the program upgrades included, are skipped.
EarlyReturn(code) ==
  /\ results' = With(results, {code}, {}, {})
  /\ gate' = IF Captures(call) THEN code ELSE gate
  /\ pc' = "finish"
  /\ UNCHANGED <<call, fatal, at, identity, report>>

CheckClaim ==
  /\ pc = "claim"
  /\ \/ call.claim # "ok" /\ EarlyReturn(call.claim)
     \/ /\ call.claim = "ok"
        /\ pc' = "structure"
        /\ UNCHANGED <<call, results, fatal, at, gate, identity, report>>

\* A compound binding counts for the store that declares it only, not through
\* an update.
Declares(c) ==
  IF c.binding = "hostless" /\ IsUpdate(c) THEN "none" ELSE c.declared

\* claim.hardBindings.missing is recorded without stopping the pass.
BindingMissing(c) ==
  \/ Declares(c) = "none"
  \/ Declares(c) = "gathered" /\ Is25(c.profile)

FirstFatal(defects) ==
  LET stops == {i \in DOMAIN defects : defects[i].fatal}
  IN IF stops = {} THEN None ELSE defects[First(stops)].code

Nonconformant(c) == c.profile.mode = "conformance" /\ ~c.conformant

CheckStructure ==
  /\ pc = "structure"
  /\ LET program == call.profile.compliance = "program"
         nonconformant == If(Nonconformant(call),
                             {"com.encypher.conformance.specVersionNonConformant"})
     IN results' = With(results,
          If(program, nonconformant)
            \union {call.structure[i].code : i \in DOMAIN call.structure}
            \union If(BindingMissing(call), {"claim.hardBindings.missing"}),
          If(~program, nonconformant), {})
  /\ fatal' = FirstFatal(call.structure)
  /\ pc' = "references"
  /\ UNCHANGED <<call, at, gate, identity, report>>

\* External data, linked resources, references between assertions and
\* redactions, then the declared version and the store-wide evidence bounds.
Malformed(c) ==
  \/ ~c.semver /\ c.profile.compliance = "program"
  \/ c.evidenceRejected

CheckReferences ==
  /\ pc = "references"
  /\ results' = With(results,
       call.references \union If(Malformed(call), {"claim.malformed"}),
       If(~call.semver /\ call.profile.compliance = "core",
          {"com.encypher.claim.specVersionNotSemver"}), {})
  /\ fatal' = IF fatal = None /\ Malformed(call) THEN "claim.malformed"
              ELSE fatal
  /\ pc' = "signature"
  /\ UNCHANGED <<call, at, gate, identity, report>>

FindSignature ==
  /\ pc = "signature"
  /\ \/ ~call.signed /\ EarlyReturn("claimSignature.missing")
     \/ /\ call.signed
        /\ pc' = "time"
        /\ UNCHANGED <<call, results, fatal, at, gate, identity, report>>

-----------------------------------------------------------------------------
(* The signing time and the credential.                                     *)

\* The signature's own tokens first, then the recorded ones.
Tokens(c) == c.header \o c.tokens

\* Where the tokens are that are decoded: a time-stamp assertion of an
\* ingredient is discarded before.
Evidence(c) == {i \in DOMAIN Tokens(c) : Tokens(c)[i].scope = "manifest"}

Verified(c) == {i \in Evidence(c) : Tokens(c)[i].verified}

\* Each token is tried until one verifies.
SigningTime(c) ==
  IF Verified(c) = {} THEN None ELSE Tokens(c)[First(Verified(c))].time

\* index_store_timestamp_assertions and validate_timestamp_evidence: an assertion
\* that does not read fails, a token that does not verify is noted only, by one
\* of the informational time-stamp codes.
EstablishTime ==
  /\ pc = "time"
  /\ LET signed == SigningTime(call)
     IN /\ at' = IF signed = None THEN Now ELSE signed
        /\ results' = With(results,
             If(call.stampMalformed, {"assertion.timestamp.malformed"}),
             If(signed = None /\ Evidence(call) # {}, {"timeStamp.untrusted"}),
             If(signed # None, {"timeStamp.validated", "timeStamp.trusted"}))
  /\ pc' = "credential"
  /\ UNCHANGED <<call, fatal, gate, identity, report>>

\* The status that makes the signature unusable by itself.
SignatureGate(c) ==
  IF c.leaf = "none" THEN "signingCredential.invalid"
  ELSE IF c.verification # "ok" THEN c.verification
  ELSE None

\* Mutant: the gate forgets the validity window.
GateWithoutWindow(c, f, t) == IF f # None THEN f ELSE SignatureGate(c)

\* The gate of a deferred pass: the first fatal status, else the signature's,
\* else the validity window.
GateCode(c, f, t) ==
  IF f # None THEN f
  ELSE IF SignatureGate(c) # None THEN SignatureGate(c)
  ELSE IF ~InValidity(c, t) THEN "claimSignature.outsideValidity"
  ELSE None

CheckCredential ==
  /\ pc = "credential"
  /\ LET leaf == call.leaf # "none"
         failed == IF leaf THEN call.verification ELSE "claimSignature.mismatch"
     IN results' = With(results,
          If(call.leaf # "acceptable", {"signingCredential.invalid"})
            \union If(failed # "ok", {failed})
            \union If(leaf /\ ~InValidity(call, at),
                      {"claimSignature.outsideValidity"}),
          {},
          If(Usable(call, fatal, at), {"claimSignature.validated"})
            \union If(leaf /\ InValidity(call, at),
                      {"claimSignature.insideValidity"}))
  /\ IF Usable(call, fatal, at)
     THEN pc' = "bindings" /\ gate' = gate
     ELSE /\ pc' = "revocation"
          /\ gate' = IF Captures(call) THEN GateCode(call, fatal, at) ELSE gate
  /\ UNCHANGED <<call, fatal, at, identity, report>>

-----------------------------------------------------------------------------
(* Assertion bindings, the parent chain and the content.                    *)

\* Mutant: a mismatching link is taken for a legacy one.
LinkFailsNever(c, link) == {}

\* A legacy link, a hash over the claim bytes only, is read by the generous
\* posture and never counts as validated.  The mismatch stands for the missing
\* manifest and the codes of the ingredient's signature, too.
LinkFails(c, link) ==
  If(link = "broken" \/ (link = "legacy" /\ ~Generous(c.profile)),
     {"ingredient.manifest.mismatch"})

LinkNoted(c, link) ==
  If(link = "legacy" /\ Generous(c.profile),
     {"com.encypher.ingredient.legacyClaimHash"})

LinkValidated(link) ==
  CASE link = "manifest"  -> {"ingredient.manifest.validated"}
    [] link = "signature" -> {"ingredient.claimSignature.validated"}
    [] OTHER              -> {}

\* verify_assertion_bindings and verify_ingredient_references of the active
\* manifest.
CheckBindings ==
  /\ pc = "bindings"
  /\ LET link == IF IsUpdate(call) THEN call.parents[1].link ELSE "manifest"
     IN results' = With(results,
          call.findings \union LinkFails(call, link),
          LinkNoted(call, link),
          If(IsUpdate(call), LinkValidated(link)))
  /\ pc' = "content"
  /\ UNCHANGED <<call, fatal, at, gate, identity, report>>

ParentValidated(c, i) == LinkValidated(c.parents[i].link) # {}

\* The intermediate update manifests of the chain the walk looks into: it
\* stops at the first whose own bindings fail or whose link does not validate.
Intermediate(c) == 1 .. (Len(c.parents) - 1)

Sound(c, i) == c.parents[i].findings = {} /\ ParentValidated(c, i + 1)

Visited(c) ==
  {i \in Intermediate(c) :
     ParentValidated(c, 1) /\ \A j \in 1 .. (i - 1) : Sound(c, j)}

ChainReached(c) ==
  ParentValidated(c, 1) /\ \A i \in Intermediate(c) : Sound(c, i)

\* 2.5 allows the multi-asset fallback among created assertions only.
FallbackAllowed(c) ==
  c.multi = "created" \/ (c.multi = "gathered" /\ ~Is25(c.profile))

\* What a comparison of the content adds to the results.
Added(failures, infos, successes) ==
  [failure |-> failures, informational |-> infos, success |-> successes]

Mismatched == Added({"assertion.dataHash.mismatch"}, {}, {})

\* A match is withheld when a hashed reference was found broken before.
Matched(code, compromised) == Added({}, {}, If(~compromised, {code}))

\* verify_prehashed_hard_binding: no binding is a mismatch, too.
DigestCompared(c, compromised) ==
  IF Declares(c) # "none" /\ c.asset = "primary"
  THEN Matched("assertion.dataHash.match", compromised)
  ELSE Mismatched

\* verify_data_hash: a plain mismatch falls back to the multi-asset hash.  A
\* compound primary binding is left to verify_compound_content.
AssetCompared(c, compromised) ==
  CASE Declares(c) = "none" -> Added({}, {}, {})
    [] Declares(c) # "none" /\ c.asset = "primary" ->
         Matched("assertion.dataHash.match", compromised)
    [] Declares(c) # "none" /\ c.asset = "malformed" ->
         Added({"assertion.dataHash.malformed"}, {}, {})
    [] OTHER ->
         IF ~FallbackAllowed(c) THEN Mismatched
         ELSE IF c.asset = "fallback"
         THEN Matched("assertion.multiAssetHash.match", compromised)
         ELSE Added({"assertion.multiAssetHash.mismatch"}, {}, {})

\* verify_compound_content of a host-less store, for a compound primary binding
CompoundCompared(c) ==
  CASE Declares(c) = "none" -> Added({}, {}, {})
    [] Declares(c) # "none" /\ c.asset = "primary" ->
         Added({}, {}, {"assertion.compoundContent.match"})
    [] OTHER -> Added({"assertion.compoundContent.mismatch"}, {}, {})

\* caller_binding::apply: evidence about another store or binding is refused,
\* and a comparison that counts is marked as the caller's.
CallerCompared(c, compromised) ==
  LET byCaller == {"com.encypher.hardBinding.callerVerified"} IN
  CASE Declares(c) = "none" \/ c.asset = "stray" ->
         Added({"com.encypher.hardBinding.callerEvidenceMismatch"}, {}, {})
    [] Declares(c) # "none" /\ c.asset = "malformed" ->
         Added({"assertion.dataHash.malformed"}, {}, {})
    [] Declares(c) # "none" /\ c.asset = "primary" ->
         IF compromised THEN Added({}, {}, {})
         ELSE Added({}, byCaller, {"assertion.dataHash.match"})
    [] OTHER -> Added({"assertion.dataHash.mismatch"}, byCaller, {})

\* record_not_evaluated
NotEvaluated == Added({}, {"com.encypher.hardBinding.notEvaluated"}, {})

Comparison(c, compromised) ==
  CASE c.binding = "prehashed" -> DigestCompared(c, compromised)
    [] c.binding = "asset"     -> AssetCompared(c, compromised)
    [] c.binding = "hostless"  -> CompoundCompared(c)
    [] c.binding = "caller"    -> CallerCompared(c, compromised)
    [] c.binding = "storeOnly" -> NotEvaluated
    [] OTHER                   -> Added({}, {}, {})

\* An update compares through an authenticated chain only; a standard
\* manifest compares directly.
Compares(c) == IsUpdate(c) => ChainReached(c)

\* What the walk along the chain finds at a manifest, and after the last one.
FoundAt(c, i) == c.parents[i].findings \union LinkFails(c, c.parents[i + 1].link)

ChainFailures(c) ==
  (UNION {FoundAt(c, i) : i \in Visited(c)})
    \union If(IsUpdate(c) /\ ChainReached(c), c.parents[Len(c.parents)].findings)

ChainWalked(c, r) ==
  With(r, ChainFailures(c),
       UNION {LinkNoted(c, c.parents[i + 1].link) : i \in Visited(c)},
       UNION {LinkValidated(c.parents[i + 1].link) : i \in Visited(c)})

\* A hashed reference was found broken.
Compromised(r) ==
  r.failure \intersect (HashedUriMismatch \union {"hashedURI.missing"}) # {}

CheckContent ==
  /\ pc = "content"
  /\ LET chain == ChainWalked(call, results)
         compared == Comparison(call, Compromised(chain))
     IN results' = IF Compares(call)
                   THEN With(chain, compared.failure, compared.informational,
                             compared.success)
                   ELSE chain
  /\ pc' = "identity"
  /\ UNCHANGED <<call, fatal, at, gate, identity, report>>

\* Mutant: identity is read on every manifest whose integrity would hold.
IdentityUnlessInvalid(c, r) ==
  Captures(c) \/ ConstructionInvalidating(r.failure) = {}

\* A named actor is judged on a manifest without any C2PA failure; under a
\* deferred binding the caller's engine has passed its own gate.
IdentityAllowed(c, r) == Captures(c) \/ r.failure \subseteq IdentityScoped

CheckIdentity ==
  /\ pc = "identity"
  /\ IF IdentityAllowed(call, results)
     THEN /\ identity' = TRUE
          /\ results' = With(results, call.identityFailures, {}, {})
     ELSE UNCHANGED <<identity, results>>
  /\ pc' = "revocation"
  /\ UNCHANGED <<call, fatal, at, gate, report>>

-----------------------------------------------------------------------------
(* Revocation, trust and the program bar.                                   *)

\* CertificateEvidence::resolve of the verified answers about one certificate:
\* a revoked one prevails, except that any good one does in the strict
\* postures.
Resolve(answers, p) ==
  IF answers = {} THEN None
  ELSE IF "revoked" \in answers /\ ("good" \notin answers \/ Generous(p))
  THEN "revoked" ELSE "good"

\* Nothing is resolved of evidence beyond its bounds, or without a leaf.
Stapled(c, which) ==
  IF c.leaf = "none" \/ c.staples.rejected THEN None
  ELSE Resolve(c.staples[which], c.profile)

\* Online answers are looked up by the certificates of the chain.
OnlineLeaf(c) == IF c.leaf = "none" THEN None ELSE c.onlineLeaf
OnlineCaRevoked(c) == c.leaf # "none" /\ c.onlineCaRevoked

\* Mutant: an online answer about the leaf replaces the stapled one for the
\* trust decision, too.
BlocksUnlessCovered(c) ==
  \/ OnlineLeaf(c) = None /\ Stapled(c, "leaf") = "revoked"
  \/ Stapled(c, "ca") = "revoked"
  \/ OnlineLeaf(c) = "revoked" \/ OnlineCaRevoked(c)

\* ocsp_blocks_trust: any source that says revoked blocks trust.
BlocksTrust(c) ==
  \/ Stapled(c, "leaf") = "revoked" \/ Stapled(c, "ca") = "revoked"
  \/ OnlineLeaf(c) = "revoked" \/ OnlineCaRevoked(c)

\* What is recorded about the leaf: the online outcome when there is one, even
\* an unusable answer, else the stapled status; a revoked CA leaves it open.
LeafRevocation(c) ==
  CASE OnlineLeaf(c) = "notRevoked" -> "good"
    [] OnlineLeaf(c) = "revoked" -> "revoked"
    [] OnlineLeaf(c) = "unknown" -> "unknown"
    [] OnlineLeaf(c) \in {"unusable", "unreachable"} -> "inaccessible"
    [] OTHER -> IF Stapled(c, "leaf") = "revoked" THEN "revoked"
                ELSE IF Stapled(c, "ca") = "revoked" THEN None
                ELSE IF Stapled(c, "leaf") = "good" THEN "good"
                ELSE "skipped"

Outranked(c, which) ==
  /\ Stapled(c, which) = "good"
  /\ "revoked" \in c.staples[which]

RecordRevocation ==
  /\ pc = "revocation"
  /\ LET leaf == LeafRevocation(call)
         caRevoked == OnlineCaRevoked(call) \/ Stapled(call, "ca") = "revoked"
     IN results' = With(results,
          If(leaf = "revoked", {"signingCredential.ocsp.revoked"})
            \union If(caRevoked, {"signingCredential.untrusted"}),
          If(leaf = "skipped", {"signingCredential.ocsp.skipped"})
            \union If(leaf = "unknown", {"signingCredential.ocsp.unknown"})
            \union If(leaf = "inaccessible",
                      {"signingCredential.ocsp.inaccessible"})
            \union If(Outranked(call, "leaf") \/ Outranked(call, "ca"),
                      {"com.encypher.ocsp.conflictingRevokedResponse"}),
          If(leaf = "good", {"signingCredential.ocsp.notRevoked"}))
  /\ pc' = "trust"
  /\ UNCHANGED <<call, fatal, at, gate, identity, report>>

\* validate_chain: a path to an anchor whose certificates are valid; under 2.5
\* the anchor itself is exempt, so a leaf that is an anchor needs no window.
ChainTrusted(c, t) ==
  /\ c.leaf = "acceptable"
  /\ \/ c.anchors = "path" /\ t \in c.window \intersect c.caWindow
     \/ c.anchors = "self" /\ (Is25(c.profile) \/ t \in c.window)

\* The allowed list trusts the certificate itself, without a path.
LeafAllowed(c, t) ==
  c.allowed = "listed" /\ c.leaf = "acceptable" /\ t \in c.window

TrustEvaluated(c) ==
  c.leaf # "none" /\ (c.anchors # "absent" \/ c.allowed # "absent")

EvaluateTrust ==
  /\ pc = "trust"
  /\ LET trusted == /\ TrustEvaluated(call)
                    /\ ChainTrusted(call, at) \/ LeafAllowed(call, at)
                    /\ fatal = None
                    /\ ~BlocksTrust(call)
         denied == \/ TrustEvaluated(call) /\ ~trusted
                   \/ /\ ~TrustEvaluated(call)
                      /\ ~Generous(call.profile) /\ call.leaf # "none"
     IN results' = With(results, If(denied, {"signingCredential.untrusted"}), {},
                        If(trusted, {"signingCredential.trusted"}))
  /\ pc' = "upgrades"
  /\ UNCHANGED <<call, fatal, at, gate, identity, report>>

\* What the program does not accept for revocation information.
NoRevocationInformation ==
  {"signingCredential.ocsp.skipped", "signingCredential.ocsp.unknown",
   "signingCredential.ocsp.inaccessible"}

ApplyUpgrades ==
  /\ pc = "upgrades"
  /\ results' =
       IF call.profile.compliance # "program" THEN results
       ELSE With(results,
              If(results.informational \intersect NoRevocationInformation # {},
                 {"com.encypher.conformance.revocationInformationMissing"})
                \union If("timeStamp.trusted" \notin results.success,
                          {"com.encypher.conformance.trustedTimeStampMissing"}), {}, {})
  /\ pc' = "finish"
  /\ UNCHANGED <<call, fatal, at, gate, identity, report>>

-----------------------------------------------------------------------------
(* The report.                                                              *)

Finish ==
  /\ pc = "finish"
  /\ report' = Verdict(results, call.profile)
  /\ pc' = "fragments"
  /\ UNCHANGED <<call, results, fatal, at, gate, identity>>

\* require_fragments_bound: fragments the manifest cannot bind are a failure
\* found after the report was built, which is restated.
RequireFragmentsBound ==
  /\ pc = "fragments"
  /\ IF call.unboundFragments
     THEN /\ results' = With(results, {"livevideo.segment.invalid"}, {}, {})
          /\ report' = Verdict(results', call.profile)
     ELSE UNCHANGED <<results, report>>
  /\ pc' = "done"
  /\ UNCHANGED <<call, fatal, at, gate, identity>>

Init ==
  /\ call \in Calls
  /\ pc = "claim"
  /\ results = NoResults
  /\ fatal = None /\ at = Now /\ gate = None
  /\ identity = FALSE /\ report = None

Next ==
  \/ CheckClaim \/ CheckStructure \/ CheckReferences \/ FindSignature
  \/ EstablishTime \/ CheckCredential \/ CheckBindings \/ CheckContent
  \/ CheckIdentity \/ RecordRevocation \/ EvaluateTrust \/ ApplyUpgrades
  \/ Finish \/ RequireFragmentsBound

Spec == Init /\ [][Next]_vars

-----------------------------------------------------------------------------
(* Properties.                                                              *)

\* Every variable holds what verify_manifest_bound declares it to hold, and a
\* report exists from finish on.
TypeOK ==
  /\ pc \in {"claim", "structure", "references", "signature", "time", "credential",
             "bindings", "content", "identity", "revocation", "trust", "upgrades",
             "finish", "fragments", "done"}
  /\ DOMAIN results = {"failure", "informational", "success"}
  /\ \A bucket \in DOMAIN results : results[bucket] \subseteq STRING
  /\ fatal \in STRING \union {None}
  /\ gate \in STRING \union {None}
  /\ identity \in BOOLEAN
  /\ report # None <=> pc \in {"fragments", "done"}

Done == pc = "done"

\* A link over the claim bytes only, which the generous posture reads.
LegacyChain(c) ==
  Generous(c.profile) /\ \E i \in DOMAIN c.parents : c.parents[i].link = "legacy"

\* The content is what the chain's hard binding, or the fallback beside it,
\* covers.
ContentMatches(c) ==
  c.asset = "primary" \/ (c.binding = "asset" /\ c.asset = "fallback"
                            /\ FallbackAllowed(c))

\* What integrity "valid" (provenance_verdict_json) promises of each way the
\* content is given: the claim signature verified, no link of the parent chain
\* and no assertion on it is broken, and the content matches - by the file, the
\* digest or the caller's evidence for this very binding - unless the report
\* itself says it was not evaluated.  Many stages return silently; none may
\* leave a verdict that nothing supports.  Links over claim bytes only are
\* excluded here, see IntegrityMeansBound.
BoundWhenValid ==
  Done /\ report.integrity = "valid" /\ ~LegacyChain(call) =>
    /\ call.verification = "ok"
    /\ \A i \in DOMAIN call.parents :
          call.parents[i].link # "broken" /\ call.parents[i].findings = {}
    /\ \/ ContentMatches(call) /\ Declares(call) # "none"
       \/ call.binding = "deferred"
       \/ /\ call.binding = "storeOnly"
          /\ "com.encypher.hardBinding.notEvaluated" \in results.informational
          /\ report.hardBinding = "unknown"

\* Trusted is earned (compute_state over every stage before it): a sound
\* structure, a verified signature by an acceptable credential, anchored or
\* listed, valid at the validation time or at a time attested by a verified
\* token for this manifest, and reported revoked by nobody who was asked - a
\* fresh online answer does not erase a stapled revocation.  A 2.5 anchor that
\* signs itself is exempt from the window (evaluate_path).  Under the program
\* nothing is Trusted on absent, unknown or unreachable revocation information
\* or without a verified time stamp (apply_compliance_upgrades).
TrustedIsEarned ==
  Done /\ report.state = "Trusted" =>
    /\ \A i \in DOMAIN call.structure : ~call.structure[i].fatal
    /\ call.verification = "ok" /\ call.leaf = "acceptable"
    /\ call.anchors \in {"path", "self"} \/ call.allowed = "listed"
    /\ \/ Is25(call.profile) /\ call.anchors = "self"
       \/ Now \in call.window
       \/ \E i \in Verified(call) : Tokens(call)[i].time \in call.window
    /\ ~call.onlineCaRevoked /\ call.onlineLeaf # "revoked"
    /\ \/ call.staples.rejected
       \/ \A which \in {"leaf", "ca"} :
             \/ "revoked" \notin call.staples[which]
             \/ ~Generous(call.profile) /\ "good" \in call.staples[which]
    /\ call.profile.compliance = "program" =>
         /\ \/ call.onlineLeaf = "notRevoked"
            \/ call.onlineLeaf = None /\ "good" \in call.staples.leaf
         /\ Verified(call) # {}

\* Outside a deferred pass a named actor is judged (cawg identity step) only on
\* a manifest whose signature verified inside its validity window, without a
\* failure of any stage, and whose content was compared and matched or is
\* reported as not evaluated.
IdentityOnSoundManifest ==
  Done /\ identity /\ ~Captures(call) /\ ~LegacyChain(call) =>
    /\ {"claimSignature.validated", "claimSignature.insideValidity"}
         \subseteq results.success
    /\ call.references = {} /\ call.findings = {}
    /\ ContentMatches(call) \/ call.binding = "storeOnly"

\* A deferred pass either reports the identity step or names why it did not
\* run, never both and never neither; the reason is one of the failures it
\* recorded, and an early return's when there was one (DeferredCapture).
GateExplains ==
  Done /\ Captures(call) =>
    /\ identity <=> gate = None
    /\ gate # None => gate \in results.failure
    /\ call.claim # "ok" => gate = call.claim
    /\ call.claim = "ok" /\ ~call.signed => gate = "claimSignature.missing"

\* README: "`integrity`: the claim signature verifies, every referenced
\* assertion matches its hash, and the content matches its hard binding".
IntegrityMeansBound ==
  Done /\ report.integrity = "valid" /\ call.binding \in {"asset", "prehashed"} =>
    ContentMatches(call)
=============================================================================
