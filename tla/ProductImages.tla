---------------------------- MODULE ProductImages ----------------------------
(***************************************************************************)
(* The pictures of one product: the files in storage and the rows that     *)
(* point at them, which no transaction spans.                              *)
(*   apps/server/src/products/product-images.service.ts  upload, delete    *)
(*   apps/server/src/products/products.service.ts        delete            *)
(*   apps/server/src/uploads/uploads.service.ts          delete            *)
(*                                                                         *)
(* A picture is named by the call that uploads it. Every step may fail,    *)
(* and the process may die between two steps.                              *)
(***************************************************************************)
EXTENDS FiniteSets

CONSTANTS
  ImageCalls,   \* the requests; each uploads at most the picture of its name
  FirstImages   \* the pictures the product has at first

Images == ImageCalls \cup FirstImages

ASSUME ImagesAssumption == ImageCalls \cap FirstImages = {}

VARIABLES
  present,     \* the product has its row
  imageRows,   \* the pictures with a row in table product_images
  uploadRows,  \* those with a row in table uploads
  files,       \* those with an object in storage
  stage,       \* per call: what it does next
  keys,        \* per call: the pictures it is about
  pulled,      \* history: files taken away by uploads.delete
  excused      \* history: pictures whose file a failure or a race may leave behind

imagesDb == <<present, imageRows, uploadRows>>
imagesVars == <<imagesDb, files, stage, keys, pulled, excused>>

ImagesInit ==
  /\ present = TRUE
  /\ imageRows = FirstImages
  /\ uploadRows = FirstImages
  /\ files = FirstImages
  /\ stage = [k \in ImageCalls |-> "idle"]
  /\ keys = [k \in ImageCalls |-> {}]
  /\ pulled = {}
  /\ excused = {}

To(k, next) == stage' = [stage EXCEPT ![k] = next]

Begin(k, next, images) ==
  /\ stage[k] = "idle"
  /\ To(k, next)
  /\ keys' = [keys EXCEPT ![k] = images]
  /\ UNCHANGED <<imagesDb, files, pulled, excused>>

-----------------------------------------------------------------------------
(* upload                                                                  *)

\* The product is there.
FindProduct(k) == present /\ Begin(k, "put", {k})

\* putFiles. A file that failed is not there, or is if only the answer was
\* lost; the call ends with the error of the storage.
PutFile(k) ==
  /\ stage[k] = "put"
  /\ \/ files' = files \cup {k} /\ To(k, "save") /\ UNCHANGED excused
     \/ files' = files \cup {k} /\ To(k, "done") /\ excused' = excused \cup {k}
     \/ UNCHANGED <<files, excused>> /\ To(k, "done")
  /\ UNCHANGED <<imagesDb, keys, pulled>>

\* The row of the picture and its Upload row, in one transaction; without
\* the product there is nothing to connect to.
SaveImage(k) ==
  /\ stage[k] = "save"
  /\ \/ /\ present
        /\ imageRows' = imageRows \cup {k}
        /\ uploadRows' = uploadRows \cup {k}
        /\ To(k, "done")
     \/ To(k, "remove files") /\ UNCHANGED <<imageRows, uploadRows>>
  /\ UNCHANGED <<present, files, keys, pulled, excused>>

-----------------------------------------------------------------------------
(* delete of a picture                                                     *)

\* Variant for the checks: the file goes before the row.
FileFirst == "remove files"
\* DB rows first so the product never points at a missing file.
RowFirst == "delete image"

FindImage(k, i) == i \in imageRows /\ Begin(k, RowFirst, {i})

\* productImage.delete fails when the row is gone.
DeleteImageRow(k) ==
  /\ stage[k] = "delete image"
  /\ keys[k] \subseteq imageRows
  /\ imageRows' = imageRows \ keys[k]
  /\ To(k, IF keys[k] \subseteq uploadRows THEN "delete upload" ELSE "done")
  /\ UNCHANGED <<present, uploadRows, files, keys, pulled, excused>>

\* upload.delete. Gone already: whoever deleted it removes the file.
DeleteUploadRow(k) ==
  /\ stage[k] = "delete upload"
  /\ uploadRows' = uploadRows \ keys[k]
  /\ To(k, IF keys[k] \subseteq uploadRows THEN "remove files" ELSE "done")
  /\ UNCHANGED <<present, imageRows, files, keys, pulled, excused>>

-----------------------------------------------------------------------------
(* delete of the product (one that was never ordered)                      *)

\* findUnique with its images and their uploads.
ReadProduct(k) == present /\ Begin(k, "delete product", imageRows \cap uploadRows)

\* The images cascade, those saved since the read too; only the uploads
\* that were read go with them.
DeleteProduct(k) ==
  /\ stage[k] = "delete product"
  /\ present
  /\ present' = FALSE
  /\ imageRows' = {}
  /\ uploadRows' = uploadRows \ keys[k]
  /\ excused' = excused \cup (imageRows \ keys[k])
  /\ To(k, "remove files")
  /\ UNCHANGED <<files, keys, pulled>>

-----------------------------------------------------------------------------
(* delete of an upload                                                     *)

FindUpload(k, i) == i \in uploadRows /\ Begin(k, "pull", {i})

\* The file, then the row.
PullFile(k) ==
  /\ stage[k] = "pull"
  /\ files' = files \ keys[k]
  /\ pulled' = pulled \cup keys[k]
  /\ To(k, "drop upload")
  /\ UNCHANGED <<imagesDb, keys, excused>>

DropUpload(k) ==
  /\ stage[k] = "drop upload"
  /\ uploadRows' = uploadRows \ keys[k]
  /\ To(k, "done")
  /\ UNCHANGED <<present, imageRows, files, keys, pulled, excused>>

-----------------------------------------------------------------------------

\* Variant for the checks: the files of what was not saved stay.
KeysForgotten(k) == IF stage[k] = "remove files" /\ k \in keys[k] THEN {} ELSE keys[k]
KeysToRemove(k) == keys[k]

\* removeKeys, best effort: what cannot be deleted stays and is logged.
RemoveFiles(k) ==
  /\ stage[k] = "remove files"
  /\ \E failed \in SUBSET KeysToRemove(k) :
       /\ files' = files \ (KeysToRemove(k) \ failed)
       /\ excused' = excused \cup failed
  /\ To(k, "done")
  /\ UNCHANGED <<imagesDb, keys, pulled>>

\* A step fails and the request with it, or the process dies: what it had
\* still to remove stays.
ImagesFail(k) ==
  /\ stage[k] \notin {"idle", "done"}
  /\ To(k, "done")
  /\ excused' = IF stage[k] \in {"save", "delete upload", "remove files"} THEN excused \cup keys[k] ELSE excused
  /\ UNCHANGED <<imagesDb, files, keys, pulled>>

ImagesNext ==
  \E k \in ImageCalls :
    \/ FindProduct(k) \/ PutFile(k) \/ SaveImage(k)
    \/ \E i \in Images : FindImage(k, i) \/ FindUpload(k, i)
    \/ DeleteImageRow(k) \/ DeleteUploadRow(k)
    \/ ReadProduct(k) \/ DeleteProduct(k)
    \/ PullFile(k) \/ DropUpload(k)
    \/ RemoveFiles(k) \/ ImagesFail(k)

ImagesSpec == ImagesInit /\ [][ImagesNext]_imagesVars

-----------------------------------------------------------------------------

\* Types: the rows, the files and what each call is about.
ImagesTypeOK ==
  /\ present \in BOOLEAN
  /\ imageRows \subseteq Images /\ uploadRows \subseteq Images
  /\ files \subseteq Images /\ pulled \subseteq Images /\ excused \subseteq Images
  /\ stage \in [ImageCalls -> {"idle", "put", "save", "delete image", "delete upload", "delete product",
                               "pull", "drop upload", "remove files", "done"}]
  /\ keys \in [ImageCalls -> SUBSET Images]

\* The product never points at a missing file, whatever fails and whoever
\* deletes at the same time; only deleting the upload itself does that.
ImagesHaveFiles == imageRows \subseteq files \cup pulled

\* Once the requests are over, a file nothing points at is one whose removal
\* failed or was cut short, or one saved while its product was deleted.
LeftoversExplained ==
  (\A k \in ImageCalls : stage[k] \in {"idle", "done"}) => files \subseteq imageRows \cup excused
=============================================================================
