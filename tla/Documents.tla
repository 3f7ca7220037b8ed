----------------------------- MODULE Documents -----------------------------
(***************************************************************************)
(* One document of an event: services/api/documents_handler.  Its row is   *)
(* in DynamoDB, its bytes are an object in S3 that the browser puts itself *)
(* with a pre-signed URL, and two calls bring the two together.            *)
(***************************************************************************)
EXTENDS Invocations

Sizes == {"fits", "oversized"}
DocumentItem == [key : BOOLEAN, confirmed : BOOLEAN]

ASSUME DocumentsAssumption == None \notin DocumentItem \cup Sizes

VARIABLES
  document,    \* the DOCUMENT item: an s3_key, upload_confirmed, size; or None
  object,      \* the S3 object: its size, or None
  upload,      \* the upload URL: "none", "open", "expired"
  arrived,     \* history: an object was put
  filers       \* the invocations

documentVars == <<document, object, upload, arrived, filers, regime>>

DocumentsInit ==
  /\ regime \in Regimes
  /\ document = None /\ object = None /\ upload = "none" /\ arrived = FALSE
  /\ filers = AllIdle

BeginFiling(c) ==
  /\ MayBegin(filers, c)
  /\ \E k \in regime.kinds \cap {"upload", "confirm", "delete"} :
       /\ k = "upload" => upload = "none"
       /\ filers' = Begun(filers, c, k)
  /\ UNCHANGED <<document, object, upload, arrived, regime>>

Files(c, kind) == filers[c].at = "read" /\ filers[c].req = kind
Filed(c) == filers' = Done(filers, c)

(* request_upload signs the URL and puts the row; its id is a new one.      *)
RequestUpload(c) ==
  /\ Files(c, "upload") /\ upload = "none"
  /\ upload' = "open"
  /\ document' = [key |-> TRUE, confirmed |-> FALSE]
  /\ Filed(c)
  /\ UNCHANGED <<object, arrived, regime>>

(* The browser may put the object as often as the URL holds; S3 expires it. *)
BrowserPuts ==
  /\ upload = "open"
  /\ object' \in Sizes
  /\ arrived' = TRUE
  /\ UNCHANGED <<document, upload, filers, regime>>

UrlExpires ==
  /\ upload = "open"
  /\ upload' = "expired"
  /\ UNCHANGED <<document, object, arrived, filers, regime>>

(* confirm_upload and delete_document answer 404 without a row. *)
RowFound == document # None

FindRow(c) ==
  /\ Files(c, "confirm") \/ Files(c, "delete")
  /\ filers' = IF RowFound
               THEN GoneTo(filers, c, IF filers[c].req = "confirm" THEN "head" ELSE "unstore")
               ELSE Done(filers, c)
  /\ UNCHANGED <<document, object, upload, arrived, regime>>

(* Mutation of Confirmable: the client is trusted to have finished its PUT. *)
ConfirmableOnTrust == TRUE

(* "The object is checked rather than trusted". *)
Confirmable == object # None

HeadObject(c) ==
  /\ filers[c].at = "head"
  /\ filers' = IF ~Confirmable THEN Done(filers, c)
               ELSE GoneTo(filers, c, IF object = "oversized" THEN "unstore" ELSE "confirm")
  /\ UNCHANGED <<document, object, upload, arrived, regime>>

(* An update without a condition: it makes a row if there is none by now.   *)
ConfirmRow(c) ==
  /\ filers[c].at = "confirm"
  /\ document' = IF document = None THEN [key |-> FALSE, confirmed |-> TRUE]
                 ELSE [document EXCEPT !.confirmed = TRUE]
  /\ Filed(c)
  /\ UNCHANGED <<object, upload, arrived, regime>>

(* delete_document, and confirm_upload of an oversized object: the object   *)
(* goes first, and the row goes whether S3 took the request or not.         *)
RemoveObject(c) ==
  /\ filers[c].at = "unstore"
  /\ object' = None \/ (regime.failures /\ object' = object)
  /\ filers' = GoneTo(filers, c, "unrow")
  /\ UNCHANGED <<document, upload, arrived, regime>>

RowRemoved(c) == None

RemoveRow(c) ==
  /\ filers[c].at = "unrow"
  /\ document' = RowRemoved(c)
  /\ Filed(c)
  /\ UNCHANGED <<object, upload, arrived, regime>>

FilerDies(c) ==
  /\ regime.failures /\ Active(filers, c)
  /\ filers' = Dead(filers, c)
  /\ UNCHANGED <<document, object, upload, arrived, regime>>

File(c) ==
  RequestUpload(c) \/ FindRow(c) \/ HeadObject(c) \/ ConfirmRow(c) \/ RemoveObject(c)
  \/ RemoveRow(c)

DocumentsNext ==
  \/ BrowserPuts \/ UrlExpires
  \/ \E c \in Calls : BeginFiling(c) \/ File(c) \/ FilerDies(c)

DocumentsSpec == DocumentsInit /\ [][DocumentsNext]_documentVars

---------------------------------------------------------------------------
(* What list_documents shows. *)
Listed == document # None /\ document.confirmed

(* "A listed document that cannot be downloaded is worse than one that is   *)
(* not there": in turn and undisturbed, whatever the browser puts or leaves *)
(* and whenever it does, what is listed names an object that is stored.     *)
ListedCanBeDownloaded ==
  (~regime.overlap /\ ~regime.failures /\ Listed /\ \A c \in Calls : ~Active(filers, c))
    => document.key /\ object # None

(* However requests overlap or die, nothing is listed that never arrived.   *)
NothingListedUnseen == Listed => arrived

(* What list_documents shows has arrived, and is there to be downloaded.    *)
ListingIsTrue == ListedCanBeDownloaded /\ NothingListedUnseen
=============================================================================
