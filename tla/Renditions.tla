------------------------------- MODULE Renditions -------------------------------
(***************************************************************************)
(* Resized images (src/pgforge/transform.go).  A request that finds no     *)
(* cached rendition decodes the object, writes a .part file and renames it *)
(* over; a request that finds one sends it.  Requests for the same size    *)
(* share both names, and files are what the names lead to: os.Create       *)
(* empties the file that is there, a rename moves the name only.           *)
(***************************************************************************)
EXTENDS Naturals, FiniteSets

CONSTANTS
    Encoders,       \* requests at once
    Images,         \* sizes of what is uploaded, [w, h]
    Boxes,          \* sizes asked for, 0: any
    MaxReplaced     \* bound: uploads at the path

ASSUME RenditionAssumption ==
    /\ IsFiniteSet(Encoders) /\ MaxReplaced \in Nat
    /\ Images \subseteq [w : Nat \ {0}, h : Nat \ {0}]
    /\ Boxes \subseteq [w : Nat, h : Nat]

VARIABLES
    image,      \* the object's file: its version and size
    box,        \* what every request here asks for
    names,      \* the cached name and the .part name: a file, 0: none
    files,       \* what the files hold: nothing, a part, or the whole of a version
    encoders,   \* the requests
    sharing,    \* history: requests that wrote one file together
    badly       \* history: a reader was sent part of a rendition

renditionVars == <<image, box, names, files, encoders, sharing, badly>>

Inodes == 1..(Cardinality(Encoders) + 2)
Blank == [of |-> 0, whole |-> FALSE, w |-> 0, h |-> 0]
Held == [of : 0..MaxReplaced + 1, whole : BOOLEAN, w : Nat, h : Nat]
NoEncoder == [pc |-> "idle", f |-> 0, out |-> Blank]

RenditionTypeOK ==
    /\ image.of \in 1..MaxReplaced + 1 /\ box \in Boxes
    /\ names \in [{"cached", "part"} -> {0} \cup Inodes]
    /\ files \in [Inodes -> Held]
    /\ encoders \in [Encoders -> [pc : {"idle", "stat", "create", "encode", "rename", "send"},
                                  f : {0} \cup Inodes, out : Held]]
    /\ sharing \in BOOLEAN /\ badly \in BOOLEAN

RenditionInit ==
    /\ \E i \in Images : image = [of |-> 1, w |-> i.w, h |-> i.h]
    /\ box \in Boxes
    /\ names = [n \in {"cached", "part"} |-> 0] /\ files = [f \in Inodes |-> Blank]
    /\ encoders = [c \in Encoders |-> NoEncoder] /\ sharing = FALSE /\ badly = FALSE

-----------------------------------------------------------------------------
(* fitBox                                                                  *)

\* The scale, as a fraction of wholes: the lesser of the two sides'.
Scale(s, b) ==
    LET rw == IF b.w > 0 /\ s.w > b.w THEN <<b.w, s.w>> ELSE <<1, 1>>
        rh == IF b.h > 0 /\ s.h > b.h THEN <<b.h, s.h>> ELSE <<1, 1>>
    IN IF rh[1] * rw[2] < rw[1] * rh[2] THEN rh ELSE rw

\* int(float64(n) * r): a product that is whole may come out just below.
Scaled(n, r) ==
    LET exact == (n * r[1]) \div r[2]
        below == IF r # <<1, 1>> /\ (n * r[1]) % r[2] = 0 THEN {exact - 1} ELSE {}
    IN {IF k < 1 THEN 1 ELSE k : k \in {exact} \cup below}

fitBox(s, b) ==
    IF b.w = 0 /\ b.h = 0 THEN {[w |-> s.w, h |-> s.h]}
    ELSE LET r == Scale(s, b) IN [w : Scaled(s.w, r), h : Scaled(s.h, r)]

\* bilinearResize: the two pixels of n that pixel k of m lies between, and how
\* far it is from the first, in parts of 2m.
Between(n, m, k) ==
    LET at == (2 * k + 1) * n - m
        first == IF at < 0 THEN 0 ELSE at \div (2 * m)
    IN [first |-> first, next |-> IF first + 1 >= n THEN n - 1 ELSE first + 1,
        far |-> at - 2 * m * first]

-----------------------------------------------------------------------------
(* serveTransformed                                                        *)

AtPoint(c, pc) == encoders[c].pc = pc
Leaves(c) == encoders' = [encoders EXCEPT ![c] = NoEncoder]

\* os.Stat: the rendition that is there is sent, whatever it was made from.
FindsCached(c) ==
    /\ AtPoint(c, "idle") /\ (box.w > 0 \/ box.h > 0)
    /\ names["cached"] # 0
    /\ badly' = (badly \/ (~files[names["cached"]].whole /\ ~sharing))
    /\ UNCHANGED <<image, box, names, files, encoders, sharing>>

\* None is there: the image is decoded and resized, unless it fits as it is.
Decodes(c) ==
    /\ AtPoint(c, "idle") /\ (box.w > 0 \/ box.h > 0)
    /\ names["cached"] = 0
    /\ \E t \in fitBox(image, box) :
         /\ t.w # image.w \/ t.h # image.h
         /\ encoders' = [encoders EXCEPT ![c] =
              [pc |-> "create", f |-> 0,
               out |-> [of |-> image.of, whole |-> TRUE, w |-> t.w, h |-> t.h]]]
    /\ UNCHANGED <<image, box, names, files, sharing, badly>>

Free == {f \in Inodes : \A n \in DOMAIN names : names[n] # f}
           \ {encoders[c].f : c \in Encoders}

\* os.Create of the .part name: a new file, or the one that is there, emptied.
CreatePart(c) ==
    LET f == IF names["part"] # 0 THEN names["part"] ELSE CHOOSE g \in Free : \A h \in Free : g <= h
    IN /\ AtPoint(c, "create")
       /\ names' = [names EXCEPT !["part"] = f] /\ files' = [files EXCEPT ![f] = Blank]
       /\ encoders' = [encoders EXCEPT ![c].pc = "encode", ![c].f = f]
       /\ sharing' = (sharing \/ \E d \in Encoders \ {c} : encoders[d].f = f)
       /\ UNCHANGED <<image, box, badly>>

\* The encoder writes; what two write into one file is neither's.
Encode(c) ==
    LET f == encoders[c].f IN
    /\ AtPoint(c, "encode")
    /\ \/ /\ files' = [files EXCEPT ![f] = IF \E d \in Encoders \ {c} : encoders[d].f = f
                                         THEN [encoders[c].out EXCEPT !.whole = FALSE]
                                         ELSE encoders[c].out]
          /\ encoders' = [encoders EXCEPT ![c].pc = "rename"] /\ UNCHANGED names
       \/ names' = [names EXCEPT !["part"] = 0] /\ Leaves(c) /\ UNCHANGED files     \* os.Remove
    /\ UNCHANGED <<image, box, sharing, badly>>

\* os.Rename: whatever .part leads to, and an error if it leads nowhere.
Rename(c) ==
    /\ AtPoint(c, "rename") /\ Leaves(c)
    /\ names' = IF names["part"] = 0 THEN names
                ELSE [cached |-> names["part"], part |-> 0]
    /\ UNCHANGED <<image, box, files, sharing, badly>>

\* The object is replaced; its renditions stay.
ImageReplaced ==
    /\ image.of <= MaxReplaced
    /\ \E i \in Images : image' = [of |-> image.of + 1, w |-> i.w, h |-> i.h]
    /\ UNCHANGED <<box, names, files, encoders, sharing, badly>>

\* The panel stops between two steps.
EncodersStop ==
    /\ \E c \in Encoders : encoders[c] # NoEncoder
    /\ encoders' = [c \in Encoders |-> NoEncoder]
    /\ UNCHANGED <<image, box, names, files, sharing, badly>>

RenditionNext ==
    \/ \E c \in Encoders : FindsCached(c) \/ Decodes(c) \/ CreatePart(c) \/ Encode(c) \/ Rename(c)
    \/ ImageReplaced \/ EncodersStop

RenditionSpec == RenditionInit /\ [][RenditionNext]_renditionVars

-----------------------------------------------------------------------------
\* No pixel outside the image is read, and no colour is reckoned beyond what
\* its byte holds: far of 0 to 2m means a mixture of the two.
SamplesInside(n, m) ==
    \A k \in 0..m - 1 : LET p == Between(n, m, k) IN
        /\ {p.first, p.next} \subseteq 0..n - 1
        /\ p.far \in 0..2 * m

\* A rendition appears whole or not at all: what the cached name leads to was
\* written to its end, failures and restarts at any step included, and fits the
\* box that was asked for.  Requests that come together are another matter:
\* they share the .part file, one renames what the other is writing
\* (transform.go:129-148).  And a rendition outlives the image: its name has
\* neither version nor date (transform.go:108).  The scaler is only asked for
\* sizes at which it stays inside the image.
RenditionsWhole ==
    LET shown == files[names["cached"]] IN
    /\ ~badly
    /\ names["cached"] # 0 /\ ~sharing =>
         /\ shown.whole
         /\ shown.w >= 1 /\ shown.h >= 1
         /\ box.w > 0 => shown.w <= box.w
         /\ box.h > 0 => shown.h <= box.h
    /\ \A t \in fitBox(image, box) :
         SamplesInside(image.w, t.w) /\ SamplesInside(image.h, t.h)
=============================================================================
