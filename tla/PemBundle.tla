------------------------------ MODULE PemBundle ------------------------------
(***************************************************************************)
(* What publish_pem_bundle() lets into the crt directory.                  *)
(*                                                                         *)
(* One file there that HAProxy cannot load takes the whole :443 bind down. *)
(* A bundle is the text of fullchain.pem and of privkey.pem: it must have  *)
(* a complete certificate and a complete key, and openssl must read the    *)
(* same public key from both.  The sources are what certbot has written,   *)
(* cut off anywhere, with or without their last newline, with blocks that  *)
(* are empty, and with keys of all kinds.                                  *)
(*                                                                         *)
(* A file is a sequence of lines, and a line is a marker or the base64 of  *)
(* one object.                                                             *)
(***************************************************************************)
EXTENDS Naturals, Sequences, FiniteSetsExt

CONSTANTS
    Fullchains,     \* what certbot may write to fullchain.pem: the lines of a chain
    Issuers         \* the certificates of a chain but the leaf's

Certificate == "CERTIFICATE"
Encrypted   == "ENCRYPTED PRIVATE KEY"

_PEM_KEY_LABELS == {"PRIVATE KEY", "RSA PRIVATE KEY", "EC PRIVATE KEY"}

BeginLine(label) == <<"begin", label>>
EndLine(label)   == <<"end", label>>
Base64(object)   == <<"data", object>>
Junk             == Base64("junk")

PemBlock(label, object) == <<BeginLine(label), Base64(object), EndLine(label)>>
EmptyPemBlock(label)    == <<BeginLine(label), EndLine(label)>>

ChainLines ==
    {BeginLine(Certificate), EndLine(Certificate)} \cup {Base64(c) : c \in Issuers \cup {"leaf"}}

\* A chain ends with a marker, and the leaf comes first.
ASSUME BundleAssumption ==
    /\ Issuers \cap {"leaf", "leaf_key", "other_key", "junk", "bad"} = {}
    /\ \A file \in Fullchains :
        /\ file \in Seq(ChainLines) /\ file # <<>> /\ file[Len(file)] = EndLine(Certificate)
        /\ \A i \in DOMAIN file : file[i] = Base64("leaf") => i = 2

\* privkey.pem: one block.
Privkeys ==
    {PemBlock(label, "leaf_key") : label \in _PEM_KEY_LABELS \cup {Encrypted}}
    \cup {PemBlock(label, "other_key") : label \in _PEM_KEY_LABELS}
    \cup {EmptyPemBlock(label) : label \in _PEM_KEY_LABELS}

\* A file cut off after a line, or in the middle of the next.
Truncated(file) ==
    {[lines |-> SubSeq(file, 1, n), newline |-> TRUE] : n \in 0..Len(file)} \cup
    {[lines |-> Append(SubSeq(file, 1, n), Junk), newline |-> FALSE] : n \in 0..(Len(file) - 1)} \cup
    {[lines |-> file, newline |-> FALSE]}

CertSources == UNION {Truncated(file) : file \in Fullchains}
KeySources  == UNION {Truncated(file) : file \in Privkeys}

VARIABLES
    fullchain, privkey,     \* the sources: their lines, and whether the last one ends
    openssl,                \* "present", or "absent": the binary is not there
    resyncs,                \* openssl finds the block that follows one that is cut off
    leaf_expired,           \* leaf_is_expired(): openssl says the leaf has expired
    verdict                 \* "none", then what publish_pem_bundle() has done

bundle_vars == <<fullchain, privkey, openssl, resyncs, leaf_expired, verdict>>

BundleTypeOK ==
    /\ {fullchain.newline, privkey.newline, resyncs, leaf_expired} \subseteq BOOLEAN
    /\ openssl \in {"present", "absent"} /\ verdict \in {"none", "published", "refused"}
-----------------------------------------------------------------------------
\* The text of two files: a line without a newline runs into the next one.
Joined(a, b) ==
    IF a.newline \/ a.lines = <<>> \/ b.lines = <<>> THEN a.lines \o b.lines
    ELSE LET last  == a.lines[Len(a.lines)]
             first == Head(b.lines)
             fused == IF last[1] # "data" /\ first[1] # "data"
                      THEN <<last[1], last[2] \o first[2]>> ELSE Junk
         IN  [a.lines EXCEPT ![Len(a.lines)] = fused] \o Tail(b.lines)

\* Mutant: the sources are joined as they are.
Assemble_AsTheyAre(a, b) == Joined(a, b)

\* "Guard against a cert whose last line runs into the key's BEGIN line"
Assemble(a, b) == Joined([a EXCEPT !.newline = TRUE], b)

\* "Labels of well-formed PEM blocks": the last marker before an END line is the
\* BEGIN line of the same label.
_pem_labels(text) ==
    {text[j][2] : j \in {j \in DOMAIN text :
        /\ text[j][1] = "end"
        /\ \E i \in 1..(j - 1) : /\ text[i] = BeginLine(text[j][2])
                                 /\ \A k \in (i + 1)..(j - 1) : text[k][1] = "data"}}

validate_pem_structure(text) ==
    LET labels == _pem_labels(text) IN
    Certificate \in labels /\ labels \cap _PEM_KEY_LABELS # {}

\* How openssl reads a file: a BEGIN line opens a block when none is open; one that
\* follows some base64 may open the next, and otherwise is taken for base64.
Opens(text, i) ==
    /\ text[i][1] = "begin"
    /\ \/ \A b \in 1..(i - 1) : text[b][1] = "begin" => \E e \in b..(i - 1) : text[e][1] = "end"
       \/ resyncs /\ i > 1 /\ text[i - 1][1] = "data"

\* What is in the block that opens with line i; "bad" stands for one it cannot read.
Contained(text, i) ==
    IF /\ i + 2 <= Len(text) /\ text[i + 2] = EndLine(text[i][2])
       /\ text[i + 1][1] = "data" /\ text[i + 1] # Junk
    THEN text[i + 1][2] ELSE "bad"

\* The leaf and its key have the same public key, which the leaf stands for.
PublicKey(object) ==
    IF object = "leaf_key" THEN "leaf" ELSE object

\* The public key of the first object with one of the labels.
OpensslFirst(text, labels) ==
    LET found == {i \in DOMAIN text : Opens(text, i) /\ text[i][2] \in labels} IN
    IF found = {} THEN "bad" ELSE PublicKey(Contained(text, Min(found)))

\* `openssl x509` and `openssl pkey` name the same public key.  (A key that is encrypted
\* is read here as with the empty passphrase of the code; the structure refuses it.)
SamePublicKey(text) ==
    LET leaf == OpensslFirst(text, {Certificate})
        key  == OpensslFirst(text, _PEM_KEY_LABELS \cup {Encrypted})
    IN  leaf # "bad" /\ leaf = key

\* "unavailable means the image is broken", and is a failure.
_openssl_pairing_status(text) == openssl = "present" /\ SamePublicKey(text)

validate_pem_bundle(text) == validate_pem_structure(text) /\ _openssl_pairing_status(text)

\* An empty source, a bundle that is not well formed, a leaf that has expired, or a
\* staged bundle that does not validate: refused, and the live file is untouched.
publish_pem_bundle ==
    LET content == Assemble(fullchain, privkey) IN
    /\ verdict = "none"
    /\ verdict' = IF /\ fullchain.lines # <<>> /\ privkey.lines # <<>>
                     /\ validate_pem_structure(content)
                     /\ ~(leaf_expired /\ openssl = "present")
                     /\ validate_pem_bundle(content)
                  THEN "published" ELSE "refused"
    /\ UNCHANGED <<fullchain, privkey, openssl, resyncs, leaf_expired>>
-----------------------------------------------------------------------------
BundleInit ==
    /\ fullchain \in CertSources /\ privkey \in KeySources
    /\ openssl \in {"present", "absent"} /\ resyncs \in BOOLEAN /\ leaf_expired \in BOOLEAN
    /\ verdict = "none"

BundleNext == publish_pem_bundle

BundleSpec == BundleInit /\ [][BundleNext]_bundle_vars
-----------------------------------------------------------------------------
(* Properties *)

WholeLeaf  == /\ Len(fullchain.lines) >= 3
              /\ SubSeq(fullchain.lines, 1, 3) = PemBlock(Certificate, "leaf")
WholeKey   == \E label \in _PEM_KEY_LABELS : privkey.lines = PemBlock(label, "leaf_key")
WholeChain == fullchain.lines \in Fullchains

\* "Comparing the two public keys proves the pair": whatever part of its sources has
\* been written, and whatever openssl makes of it, a bundle is published only with a
\* whole leaf that has not expired at its start and the leaf's whole key at its end,
\* and never without openssl; and the bundle certbot means to write is published.
\* (A block between the two may be cut off: the check skips it, and so does openssl.)
PublishedPairs ==
    /\ verdict = "published" => openssl = "present" /\ ~leaf_expired /\ WholeLeaf /\ WholeKey
    /\ verdict = "refused" =>
        openssl = "absent" \/ leaf_expired \/ ~(WholeLeaf /\ WholeChain /\ WholeKey)
=============================================================================
