---------------------------- MODULE AssetServing ----------------------------
(***************************************************************************)
(* How a file beside the artifact reaches the browser (serve/asset.ts,     *)
(* etag.ts, range.ts): conditional and byte-range requests against a file  *)
(* that is saved while it is served.  The server keeps nothing between two *)
(* requests; what must stay right is the copy the browser puts together    *)
(* from 200, 206 and 304 answers.  Every byte of version n of the file is  *)
(* the number n.                                                           *)
(***************************************************************************)
EXTENDS Integers

CONSTANTS
  MaxVersions,     \* bound on saves
  MaxMtime,        \* bound on the clock of the file system, in milliseconds
  MsPerSecond,     \* milliseconds in a second of an HTTP date
  MaxAssetSize     \* bound on the length of the file

ASSUME AssetAssumption ==
  /\ MaxVersions \in Nat \ {0} /\ MaxMtime \in Nat
  /\ MsPerSecond \in Nat \ {0} /\ MaxAssetSize \in Nat \ {0}

VARIABLES
  asset,    \* the file as it is: [version, size, mtime]
  copy,     \* the browser's copy and the validators stored with it
  answer,   \* the answer whose body is under way
  opened    \* the version the open read stream reads

assetVars == <<asset, copy, answer, opened>>

Absent == -1                       \* an absent number in a header
BytePosition == 0 .. MaxAssetSize - 1
VersionNumber == 1 .. MaxVersions
FileVersion == [version : VersionNumber, size : 0 .. MaxAssetSize, mtime : 0 .. MaxMtime]

Closed == [version |-> 0, size |-> 0, mtime |-> 0]
NoAnswer == [of |-> 0, next |-> 0, stop |-> 0]

StrongEtag(f) == <<f.size, f.mtime>>
HttpDate(f) == f.mtime \div MsPerSecond

NoBytes == [p \in BytePosition |-> 0]
NoCopy == [etag |-> <<>>, date |-> Absent, bytes |-> NoBytes, dated |-> FALSE]

FirstVersions == {f \in FileVersion : f.version = 1}

AssetInit ==
  /\ asset \in FirstVersions
  /\ copy = NoCopy
  /\ answer = NoAnswer
  /\ opened = Closed

----------------------------------------------------------------------------
(* The headers of a request: the validators are those stored with the copy *)
(* and "range" is bytes=first-last, either number absent.                  *)
RangeHeader == [first : {Absent} \cup 0 .. MaxAssetSize, last : {Absent} \cup 0 .. MaxAssetSize]
Headers ==
  [ifNoneMatch : BOOLEAN, ifModifiedSince : BOOLEAN,
   ifRange : {"absent", "etag", "date"}, range : RangeHeader]

Sendable(h) ==
  copy = NoCopy => ~h.ifNoneMatch /\ ~h.ifModifiedSince /\ h.ifRange = "absent"

(* Slip: a date that has not passed is as good as the tag. *)
TagOrDate(h, f) ==
  \/ h.ifNoneMatch /\ copy.etag = StrongEtag(f)
  \/ h.ifModifiedSince /\ HttpDate(f) <= copy.date

IsNotModified(h, f) ==
  IF h.ifNoneMatch THEN copy.etag = StrongEtag(f)
  ELSE h.ifModifiedSince /\ HttpDate(f) <= copy.date

IsRangeFresh(h, f) ==
  \/ h.ifRange = "absent"
  \/ h.ifRange = "etag" /\ copy.etag = StrongEtag(f)
  \/ h.ifRange = "date" /\ HttpDate(f) <= copy.date

(* "bytes=-" and every header that is not a byte range count as absent.  A *)
(* range is the half-open interval start .. stop - 1 here.                 *)
Larger(m, n) == IF m > n THEN m ELSE n
Smaller(m, n) == IF m < n THEN m ELSE n
WholeAsset == [kind |-> "none"]
Unsatisfiable == [kind |-> "unsatisfiable"]
ParseRange(r, size) ==
  LET suffix == r.first = Absent
      start == IF suffix THEN Larger(0, size - r.last) ELSE r.first
      end == IF suffix \/ r.last = Absent THEN size - 1 ELSE r.last
  IN IF suffix /\ r.last = Absent THEN WholeAsset
     ELSE IF (suffix /\ r.last = 0) \/ start >= size \/ start > end THEN Unsatisfiable
     ELSE [kind |-> "range", start |-> start, stop |-> Smaller(end, size - 1) + 1]

RangeOf(h, f) == IF IsRangeFresh(h, f) THEN ParseRange(h.range, f.size) ELSE WholeAsset

(* What the browser makes of the head of an answer.  A 304 keeps the copy  *)
(* and renews its validators; a 206 adds to the copy when the request      *)
(* carried If-Range or the tag is still the copy's, and starts a new one   *)
(* otherwise; a 200 starts a new one.  "dated" remembers that a date       *)
(* alone vouched for bytes of another tag, as it can within one second.    *)
Labelled(f, bytes, dated) ==
  [etag |-> StrongEtag(f), date |-> HttpDate(f), bytes |-> bytes, dated |-> dated]
Vouched(f, byDate) ==
  Labelled(f, copy.bytes, copy.dated \/ (byDate /\ copy.etag # StrongEtag(f)))
Extended(h, f) ==
  IF h.ifRange # "absent" \/ copy.etag = StrongEtag(f)
  THEN Vouched(f, h.ifRange = "date")
  ELSE Labelled(f, NoBytes, FALSE)

Body(f, start, stop) == answer' = [of |-> f.version, next |-> start, stop |-> stop]

(* serveAsset: stat, then everything up to the body in one go. *)
ServeAsset(h) ==
  LET f == asset
      range == RangeOf(h, f)
  IN /\ answer = NoAnswer
     /\ Sendable(h)
     /\ \/ /\ IsNotModified(h, f)
           /\ copy' = Vouched(f, ~h.ifNoneMatch)
           /\ UNCHANGED answer
        \/ /\ ~IsNotModified(h, f)
           /\ range.kind = "unsatisfiable"
           /\ UNCHANGED <<copy, answer>>
        \/ /\ ~IsNotModified(h, f)
           /\ range.kind = "range"
           /\ copy' = Extended(h, f)
           /\ Body(f, range.start, range.stop)
        \/ /\ ~IsNotModified(h, f)
           /\ range.kind = "none"
           /\ copy' = Labelled(f, NoBytes, FALSE)
           /\ Body(f, 0, f.size)
     /\ UNCHANGED <<asset, opened>>

(* createReadStream opens the path again, after the stat. *)
OpenStream ==
  /\ answer # NoAnswer /\ opened = Closed
  /\ opened' = asset
  /\ UNCHANGED <<asset, copy, answer>>

(* Content-Length ends the body for the browser, also where the stream has *)
(* more; a stream that has less ends it early.                             *)
PipeByte ==
  /\ opened # Closed
  /\ answer.next < answer.stop /\ answer.next < opened.size
  /\ copy' = [copy EXCEPT !.bytes[answer.next] = opened.version]
  /\ answer' = [answer EXCEPT !.next = @ + 1]
  /\ UNCHANGED <<asset, opened>>

AnswerOver == answer' = NoAnswer /\ opened' = Closed /\ UNCHANGED <<asset, copy>>

EndAnswer ==
  /\ opened # Closed
  /\ answer.next = answer.stop \/ answer.next >= opened.size
  /\ AnswerOver

DropAnswer == answer # NoAnswer /\ AnswerOver

(* An editor saves the file, in place or under a new inode.  Two saves get *)
(* different times: the clock of the file system is finer than a save.     *)
SaveAsset(inPlace) ==
  \E f \in FileVersion :
     /\ f.version = asset.version + 1
     /\ f.mtime > asset.mtime
     /\ asset' = f
     /\ opened' = IF inPlace /\ opened # Closed THEN f ELSE opened
     /\ UNCHANGED <<copy, answer>>

AssetNext ==
  \/ \E h \in Headers : ServeAsset(h)
  \/ OpenStream \/ PipeByte \/ EndAnswer \/ DropAnswer
  \/ \E inPlace \in BOOLEAN : SaveAsset(inPlace)

AssetSpec == AssetInit /\ [][AssetNext]_assetVars

----------------------------------------------------------------------------
(* What the browser holds under the tag the file has now is the file's:    *)
(* every byte of it, whatever was saved, dropped or resumed while the copy *)
(* was put together, and whichever of the answers vouched for the copy,    *)
(* unless a date vouched for it against its tag (etag.ts, range.ts).  So a copy that       *)
(* mixed versions, as a save between stat and stream makes one, never      *)
(* carries a tag the next revalidation accepts.  And an answer promises    *)
(* only bytes its version of the file has (asset.ts): a body falls short   *)
(* only when the file was saved after the stat.                            *)
CopyIsOfItsTag ==
  /\ copy.etag = StrongEtag(asset) /\ ~copy.dated =>
       \A p \in BytePosition : copy.bytes[p] # 0 =>
          copy.bytes[p] = asset.version /\ p < asset.size
  /\ answer # NoAnswer /\ asset.version = answer.of =>
       answer.next <= answer.stop /\ answer.stop <= asset.size
============================================================================
