----------------------------- MODULE WMFWUpload -----------------------------
(***************************************************************************)
(* The uploader of WMFW images (WMFWUploader.hpp): region after region, one*)
(* transaction at a time, each verified, and a region that fails put back. *)
(***************************************************************************)
EXTENDS CS35L41Chip

VARIABLE up  \* [region, tx: the next transaction, backup: the memory before]

\* The regions of the two images and their transactions.
Regions == << <<"PM">>, <<"XM1", "XM2">>, <<"Tuning">> >>

Image == IF up.region < 3 THEN "Firmware" ELSE "Tuning"
Region == Regions[up.region]
Block == Region[up.tx]

\* Program memory cannot be read back.
Readable == Region # <<"PM">>

Begin(region, mem) == [region |-> region, tx |-> 1, backup |-> mem]

\* All regions of an image are planned before any is written.
Planned(image) == board.defect # <<"Plan", image>>

\* One bulk write.  A failure may leave half of it; a readable block may also
\* come out wrong without one.
BulkWrite(w, x) ==
    LET bad == [w EXCEPT !.chip = Effect(w.chip, Loaded(w.chip, Block, "Bad"))]
    IN  Write(w, Loaded(w.chip, Block, x))
        \cup IF w.down THEN {}
             ELSE Fails(bad) \cup
                  {[v EXCEPT !.ok = TRUE, !.down = FALSE] :
                      v \in IF Readable THEN Fails(bad) ELSE {}}

\* A write that fails is tried once more.
WriteBlock(w) ==
    UNION {IF v.ok THEN {v} ELSE BulkWrite([v EXCEPT !.ok = TRUE], "New") :
              v \in BulkWrite(w, "New")}

\* A mutant: a block that was read is not compared.
VerifyBlockRead(w) == Read(w)

VerifyBlock(w) ==
    {[v EXCEPT !.ok = v.ok /\ v.chip.mem[Block] = "New"] : v \in Read(w)}

Restored(ws, b) == UNION {Write(v, Loaded(v.chip, b, up.backup[b])) : v \in ws}

\* Every block of the region is put back, and the image stays invalid.
RestoreRegion(w) ==
    LET first == IF Readable THEN Restored({w}, Region[1]) ELSE {w}
    IN  {[v EXCEPT !.ok = FALSE] :
            v \in IF Len(Region) = 2 THEN Restored(first, Region[2]) ELSE first}

\* The next transaction; the region was saved before the first one.
Transaction(w) ==
    LET saved == IF Readable /\ up.tx = 1 THEN Read(w) ELSE {w}
        Verified(v) == IF Readable THEN VerifyBlock(v) ELSE {v}
        Sent(v) == UNION {IF u.ok THEN {u} ELSE RestoreRegion(u) :
                             u \in Onward(WriteBlock(v), Verified)}
    IN  Onward(saved, Sent)

\* Where the upload goes on, with the memory as it is.
Advanced(mem) == IF up.tx < Len(Region) THEN [up EXCEPT !.tx = up.tx + 1]
                 ELSE Begin(up.region + 1, mem)
=============================================================================
