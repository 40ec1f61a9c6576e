-------------------------- MODULE MultipartAnswers --------------------------
(***************************************************************************)
(* The inductive invariant of the whole server: object, bucket and         *)
(* multipart requests on one data directory.                               *)
(*                                                                         *)
(* It is that of the plain requests (BackendInvariant, BackendAnswers) and *)
(* that of the upload directories (MultipartInvariant), and what joins     *)
(* them: the values an upload hands on to an object (UploadValuesOK,       *)
(* InHandOK), the two metadata writes of a completion (AgainOK), and what  *)
(* an upload request has found out when it answers (UploadAt).             *)
(***************************************************************************)
EXTENDS MultipartInvariant, BackendAnswers

\* What the files of upload directories hold.
UploadValuesOK ==
    /\ \A d \in Paths : doc[d] \in Sessions \cup {None, Empty, Garbled}
    /\ \A x \in Parts : /\ doc[x] \in Bodies \cup {None, Empty, Garbled}
                        /\ kept[x] \in Bodies \cup {None}
    /\ partData \in [Parts -> Bodies \cup {None}]
    /\ chunk \in [Workers -> Bodies \cup {None, Garbled}]

\* What a request about an upload has in hand.  A completion has joined at
\* least one part by the time it hands the result to PutObject.
InHandOK(p) ==
    /\ req[p].op \in JobOps =>
           /\ job[p] \in [path: Paths, part: Int, sel: Selections,
                          left: SUBSET Nat, etags: Bodies \cup {None}]
           /\ job[p].left \subseteq DOMAIN job[p].sel
    /\ pc[p] \in CombineCalls => got[p].attrs \in Uploads
    /\ pc[p] \in {"CombineData", "CombinedOpen", "CompleteExists", "CompleteMeta"}
       \/ (req[p].op = "Complete" /\ pc[p] \in ObjectPuts)
       => job[p].etags \in Bodies
    /\ pc[p] \in {"CombinedOpen", "CompleteExists", "CompleteMeta"} => got[p].body \in Bodies

\* The object a completion has stored and will write the metadata of again.
Again(p) == IF pc[p] \in {"CompleteExists", "CompleteMeta"} THEN {Dst(p)} ELSE {}

\* Unless it is dirty, it is the one that was stored, and nobody else is in
\* the middle of it.
AgainOK ==
    \A p \in Workers : \A x \in Again(p) :
        /\ x \in quiet[p] => x \notin dirty
        /\ x \notin dirty => /\ acked[x] # None /\ acked[x].body = got[p].body
                             /\ \A q \in Workers \ {p} : x \notin Flux(q) \cup Again(q)

\* If nothing overlapped the request, there is an upload of this id and key.
FoundOpen(p) ==
    Path(p) \in calm[p] \ unsure => kept[Path(p)] # None /\ kept[Path(p)].key = Dst(p)

PartAt(p) ==
    req[p].op \in PartOps =>
    /\ pc[p] \in PartCalls \ {"PartNumber", "UploadExists", "UploadRead"} => FoundOpen(p)
    /\ pc[p] \in PartCalls =>
          IF req[p].op = "UploadPart" THEN got[p].body = req[p].up
          ELSE Undisturbed(p, Src(p)) =>
                   acked[Src(p)] # None /\ acked[Src(p)].body = got[p].body
    /\ pc[p] = "done" /\ got[p].code = "OK" => job[p].part \in 1..PartCount

\* The part a completion looked at last is one it has ticked off, and one
\* that was there.
CompleteAt(p) ==
    req[p].op = "Complete" =>
    /\ pc[p] \in {"CombinedTemp", "CombineMeta", "CombineData"} => FoundOpen(p)
    /\ pc[p] \in {"UploadExists", "UploadRead", "CombinedTemp"} => job[p].part = 0
    /\ pc[p] \in {"CombineMeta", "CombineData"} =>
          \/ job[p].part = 0
          \/ \E k \in DOMAIN job[p].sel \ job[p].left : job[p].sel[k].part = job[p].part
    /\ pc[p] = "CombineData" => /\ job[p].part \in 1..PartCount
                                /\ Item(p) \in calm[p] \ unsure => kept[Item(p)] # None

\* What a listing of parts has still to read is there.
PartsAt(p) ==
    /\ pc[p] \in {"PartsScan", "PartsRead"} => FoundOpen(p)
    /\ pc[p] = "PartsRead" =>
          \A x \in scan[p] : /\ x \in Parts \cap ItemsOf(Path(p))
                             /\ x \in calm[p] \ unsure => kept[x] # None

\* UploadAnswersAreExact, of one worker.
UploadAnswered(p) ==
    pc[p] = "done" /\ job[p] # None /\ Sure(p, ItemsOf(Path(p))) =>
        LET d == Path(p)
            open == kept[d] # None /\ kept[d].key = Dst(p)
        IN /\ got[p].code = "NoSuchUpload" => ~open
           /\ req[p].op = "UploadPart" /\ got[p].code = "OK" =>
                  open /\ kept[Item(p)] = req[p].up
           /\ Answered(p, "UploadPartCopy", "OK") /\ Undisturbed(p, Src(p)) =>
                  open /\ acked[Src(p)] # None /\ kept[Item(p)] = acked[Src(p)].body
           /\ req[p].op = "Complete" /\ got[p].code = "InvalidPart" =>
                  open /\ Refusable(d, job[p].sel)
           /\ req[p].op \in {"Complete", "Abort"} /\ got[p].code = "OK" => kept[d] = None
           /\ req[p].op \in {"Abort", "ListParts"} => got[p].code # "InternalError"

UploadAt(p) == PartAt(p) /\ CompleteAt(p) /\ PartsAt(p) /\ UploadAnswered(p)

\* Only a worker that serves a request about one upload has a job.
JobsOK ==
    \A p \in Workers : job[p] # None => pc[p] # "idle" /\ req[p].op \in JobOps

UploadInv ==
    /\ UploadValuesOK /\ AgainOK /\ JobsOK
    /\ \A p \in Workers : pc[p] # "idle" => InHandOK(p) /\ UploadAt(p)

ServerInv == IInv /\ AnswersInv /\ PartsInv /\ UploadInv

----------------------------------------------------------------------------
(***************************************************************************)
(* What a completion has joined so far: the invariant behind               *)
(* CompletesAreExact.                                                      *)
(***************************************************************************)
Finishing == {"CombinedOpen", "CompleteExists", "CompleteMeta"} \cup ObjectPuts

\* Nothing overlaps the completion p serves.
Alone(p) == Sure(p, ItemsOf(Path(p)))

\* A number that was ticked off comes again: this selection will be refused.
ComesAgain(p) == \E k \in job[p].left : job[p].sel[k].part = job[p].part

\* What is ticked off does not come after the last part, what is left not
\* before it, and the ETags are joined up to it.
TickedAt(p) ==
    LET j == job[p] IN
    pc[p] \in {"UploadExists", "UploadRead", "CombinedTemp", "CombineMeta", "CombineData"} =>
        \/ /\ j.part = 0 /\ j.left = DOMAIN j.sel /\ j.etags = None
           /\ got[p].body = None /\ pc[p] # "CombineData"
        \/ /\ j.part \in 1..PartCount
           /\ \A k \in DOMAIN j.sel : IF k \in j.left THEN j.part <= j.sel[k].part
                                      ELSE j.sel[k].part <= j.part
           /\ ComesAgain(p) \/ j.etags = JoinedUpTo(j.sel)[j.part]

\* The bodies are joined in step with the ETags.
JoinedAt(p) ==
    /\ pc[p] = "CombineMeta" /\ Alone(p) => got[p].body = job[p].etags
    /\ pc[p] = "CombineData" /\ Alone(p) => job[p].etags = Join(got[p].body, kept[Item(p)])
    /\ pc[p] \in Finishing => /\ job[p].etags = Joined(job[p].sel)
                              /\ Alone(p) => got[p].body = job[p].etags

\* The headers in hand are those of the upload.  From the second metadata
\* write on the ETag is that of the parts, and the headers come from the disk.
HeadersAt(p) ==
    /\ /\ pc[p] \in CombineCalls \cup ObjectPuts /\ Alone(p)
       /\ got[p].etag = None \/ Dst(p) \in quiet[p]
       => got[p].attrs = kept[Path(p)].attrs
    /\ pc[p] \in CombineCalls \cup {"UploadExists", "UploadRead"} => got[p].etag = None
    /\ pc[p] \in ObjectPuts
           => got[p].etag \in {None, [kind |-> "multipart", of |-> job[p].etags]}

\* What has been stored, if nobody else mutates the object.
StoredAt(p) ==
    /\ pc[p] \in {"CompleteExists", "CompleteMeta"} => acked[Dst(p)].attrs = got[p].attrs
    /\ pc[p] = "RemoveNames" /\ Alone(p) =>
           acked[Dst(p)] = [body |-> Joined(job[p].sel), attrs |-> kept[Path(p)].attrs,
                            etag |-> [kind |-> "multipart", of |-> Joined(job[p].sel)]]
    /\ pc[p] \in {"RemoveNames", "RemoveEntries"} \/ (pc[p] = "done" /\ got[p].code = "OK")
           => Dst(p) \notin dirty /\ got[p].etag = acked[Dst(p)].etag

CompletionAt(p) ==
    req[p].op = "Complete" =>
        TickedAt(p) /\ JoinedAt(p) /\ HeadersAt(p) /\ (Dst(p) \in quiet[p] => StoredAt(p))

CompletionInv == \A p \in Workers : pc[p] # "idle" => CompletionAt(p)

=============================================================================
