--------------------------- MODULE InvoiceCatalogue ---------------------------
(***************************************************************************)
(* What an invoice is found by (storage.rs, invoice.rs and their entry     *)
(* points in lib.rs): its metadata with the two indexes over it, category, *)
(* tags and ratings, and the status lists all searches walk.  How a status *)
(* comes about is InvoiceFinancing's matter; here it is                    *)
(* update_invoice_status.  restore_backup, which rewrites invoices without *)
(* these lists, is left out.                                               *)
(***************************************************************************)
EXTENDS Sublists, Sums, SequencesExt

CONSTANTS
    Invoice,        \* numbers, in the order the invoices are stored
    Category, Rater,
    NoText,         \* metadata that is not there
    Amount,         \* amount of every invoice
    Text,           \* spellings of tags: [tag, long]: the trimmed lower-case form,
                    \* and whether the spelling has more than 50 bytes
    NoTag,          \* the form of what is blank or too long
    Tagged,         \* sequences of texts invoices are stored with
    Metadata,       \* metadata given: [customer, taxId, items], items of [count, price, total]
    Scores,         \* ratings given
    MaxTags,        \* 10 tags
    MaxHeld,        \* bound of the model: tags of an invoice
    MaxRatings      \* bound of the model: ratings of an invoice

VARIABLES
    invoice,        \* invoice -> its record
    byStatus,       \* status -> invoices
    byCustomer,     \* name -> invoices
    byTaxId         \* tax id -> invoices

vars == <<invoice, byStatus, byCustomer, byTaxId>>

(* get_all_invoice_ids visits the lists in this order. *)
Statuses == <<"Pending", "Verified", "Funded", "Paid", "Defaulted", "Cancelled", "Refunded">>

Absent == [status |-> "Absent"]
Stored == {i \in Invoice : invoice[i] # Absent}
Customers == {m.customer : m \in Metadata} \ {NoText}
TaxIds == {m.taxId : m \in Metadata} \ {NoText}

Init ==
    /\ invoice = [i \in Invoice |-> Absent]
    /\ byStatus = [s \in Range(Statuses) |-> <<>>]
    /\ byCustomer = [n \in Customers |-> <<>>]
    /\ byTaxId = [x \in TaxIds |-> <<>>]

----------------------------------------------------------------------------

With(list, i) == IF Contains(list, i) THEN list ELSE Append(list, i)

(* The invoice stays where it was. *)
Reindexed_Fault(index, old, new, i) ==
    [k \in DOMAIN index |-> IF k = new THEN With(index[k], i) ELSE index[k]]

(* Out of the list of the old key, if any, and into that of the new one:     *)
(* done by the entry point and again by update, with the same result.        *)
Reindexed(index, old, new, i) ==
    [k \in DOMAIN index |->
        LET left == IF k = old THEN Without(index[k], {i}) ELSE index[k] IN
        IF k = new THEN With(left, i) ELSE left]

ItemsTotal(m) == Total([n \in DOMAIN m.items |-> m.items[n].total])

(* validate_invoice_metadata *)
ValidMetadata(m) ==
    /\ m.customer # NoText /\ m.taxId # NoText
    /\ m.items # <<>>
    /\ \A n \in DOMAIN m.items :
          /\ m.items[n].count > 0 /\ m.items[n].price >= 0
          /\ m.items[n].total = m.items[n].count * m.items[n].price
    /\ ItemsTotal(m) = Amount

(* validate_invoice_tags: every text is a tag, no two the same. *)
ValidTags(texts) ==
    /\ Len(texts) <= MaxTags
    /\ \A n \in DOMAIN texts : texts[n].tag # NoTag
    /\ \A m, n \in DOMAIN texts : m # n => texts[m].tag # texts[n].tag

HasTag(i, text) == ~text.long /\ Contains(invoice[i].tags, text.tag)

(* Every text given is added. *)
TagAdded_Fault(i, tag) == Append(invoice[i].tags, tag)

(* add_tag: there is no limit to their number. *)
TagAdded(i, tag) ==
    IF Contains(invoice[i].tags, tag) THEN invoice[i].tags ELSE Append(invoice[i].tags, tag)

SumOf(ratings) == Total([n \in DOMAIN ratings |-> ratings[n].score])

----------------------------------------------------------------------------
(* Ids are handed out in order. *)
Store(i, category, texts) ==
    /\ invoice[i] = Absent /\ \A j \in Invoice : j < i => invoice[j] # Absent
    /\ ValidTags(texts)
    /\ invoice' = [invoice EXCEPT ![i] =
          [status |-> "Pending", category |-> category, customer |-> NoText, taxId |-> NoText,
           tags |-> [n \in DOMAIN texts |-> texts[n].tag], ratings |-> <<>>, average |-> 0]]
    /\ byStatus' = [byStatus EXCEPT !["Pending"] = With(@, i)]
    /\ UNCHANGED <<byCustomer, byTaxId>>

UpdateInvoiceMetadata(i, m) ==
    /\ i \in Stored
    /\ ValidMetadata(m)
    /\ invoice' = [invoice EXCEPT ![i].customer = m.customer, ![i].taxId = m.taxId]
    /\ byCustomer' = Reindexed(byCustomer, invoice[i].customer, m.customer, i)
    /\ byTaxId' = Reindexed(byTaxId, invoice[i].taxId, m.taxId, i)
    /\ UNCHANGED byStatus

ClearInvoiceMetadata(i) ==
    /\ i \in Stored /\ invoice[i].customer # NoText
    /\ invoice' = [invoice EXCEPT ![i].customer = NoText, ![i].taxId = NoText]
    /\ byCustomer' = Reindexed(byCustomer, invoice[i].customer, NoText, i)
    /\ byTaxId' = Reindexed(byTaxId, invoice[i].taxId, NoText, i)
    /\ UNCHANGED byStatus

(* It leaves the list of its status and enters that of the new one at the    *)
(* end, the same list perhaps.                                               *)
UpdateInvoiceStatus(i, status) ==
    /\ i \in Stored
    /\ status \in {"Verified", "Funded", "Paid", "Defaulted"}
    /\ invoice' = [invoice EXCEPT ![i].status = status]
    /\ byStatus' = Reindexed(byStatus, invoice[i].status, status, i)
    /\ UNCHANGED <<byCustomer, byTaxId>>

UpdateInvoiceCategory(i, category) ==
    /\ i \in Stored
    /\ invoice' = [invoice EXCEPT ![i].category = category]
    /\ UNCHANGED <<byStatus, byCustomer, byTaxId>>

AddInvoiceTag(i, text) ==
    /\ i \in Stored
    /\ text.tag # NoTag
    /\ Len(TagAdded(i, text.tag)) <= MaxHeld
    /\ invoice' = [invoice EXCEPT ![i].tags = TagAdded(i, text.tag)]
    /\ UNCHANGED <<byStatus, byCustomer, byTaxId>>

RemoveInvoiceTag(i, text) ==
    /\ i \in Stored
    /\ text.tag # NoTag
    /\ invoice' = [invoice EXCEPT ![i].tags = Without(@, {text.tag})]
    /\ UNCHANGED <<byStatus, byCustomer, byTaxId>>

(* A rater may rate again. *)
MayRate_Fault(i, rater, score) == score \in 1..5 /\ invoice[i].status \in {"Funded", "Paid"}

MayRate(i, rater, score) ==
    /\ score \in 1..5
    /\ invoice[i].status \in {"Funded", "Paid"}
    /\ \A n \in DOMAIN invoice[i].ratings : invoice[i].ratings[n].by # rater

AddInvoiceRating(i, rater, score) ==
    LET ratings == Append(invoice[i].ratings, [by |-> rater, score |-> score]) IN
    /\ i \in Stored
    /\ MayRate(i, rater, score)
    /\ Len(ratings) <= MaxRatings
    /\ invoice' = [invoice EXCEPT ![i].ratings = ratings,
                                  ![i].average = SumOf(ratings) \div Len(ratings)]
    /\ UNCHANGED <<byStatus, byCustomer, byTaxId>>

Next ==
    \E i \in Invoice :
        \/ ClearInvoiceMetadata(i)
        \/ \E c \in Category :
              UpdateInvoiceCategory(i, c) \/ \E texts \in Tagged : Store(i, c, texts)
        \/ \E m \in Metadata : UpdateInvoiceMetadata(i, m)
        \/ \E s \in Range(Statuses) : UpdateInvoiceStatus(i, s)
        \/ \E t \in Text : AddInvoiceTag(i, t) \/ RemoveInvoiceTag(i, t)
        \/ \E r \in Rater, score \in Scores : AddInvoiceRating(i, r, score)

Spec == Init /\ [][Next]_vars

----------------------------------------------------------------------------
(* Searches. *)

AllInvoiceIds == Joined([n \in DOMAIN Statuses |-> byStatus[Statuses[n]]])

(* The invoices of a list that are among these. *)
Among(list, these) == Sublist(list, {n \in DOMAIN list : list[n] \in these})

InvoicesByCategory(c) == Among(AllInvoiceIds, {i \in Stored : invoice[i].category = c})

InvoicesByCatStatus(c, s) == Among(byStatus[s], {i \in Stored : invoice[i].category = c})

(* All the tags, however they are spelled; none of more than 50 bytes. *)
InvoicesByTags(texts) == Among(AllInvoiceIds, {i \in Stored : \A t \in texts : HasTag(i, t)})

InvoicesWithRatingAbove(threshold) ==
    Among(AllInvoiceIds, {i \in Stored : invoice[i].average > threshold})

TotalInvoiceCount == Len(AllInvoiceIds)

----------------------------------------------------------------------------
TypeOK ==
    /\ \A i \in Stored : /\ invoice[i].status \in Range(Statuses)
                         /\ invoice[i].category \in Category
                         /\ invoice[i].customer \in Customers \cup {NoText}
                         /\ invoice[i].average \in 0..5

OnceIn(list, i) == \E n \in DOMAIN list : list[n] = i /\ \A m \in DOMAIN list : list[m] = i => m = n

(* Whatever is changed in whatever order, the lists of an invoice's present  *)
(* status, customer and tax id name it once and no other does, so that the   *)
(* searches, which walk the lists of all statuses, return each invoice once. *)
CatalogueExact ==
    \A i \in Invoice :
        /\ \A s \in Range(Statuses) :
              IF invoice[i].status = s THEN OnceIn(byStatus[s], i) ELSE ~Contains(byStatus[s], i)
        /\ \A n \in Customers :
              IF i \in Stored /\ invoice[i].customer = n THEN OnceIn(byCustomer[n], i)
              ELSE ~Contains(byCustomer[n], i)
        /\ \A x \in TaxIds :
              IF i \in Stored /\ invoice[i].taxId = x THEN OnceIn(byTaxId[x], i)
              ELSE ~Contains(byTaxId[x], i)
        /\ TotalInvoiceCount = Cardinality(Stored)
        /\ i \in Stored => /\ OnceIn(InvoicesByCategory(invoice[i].category), i)
                           /\ OnceIn(InvoicesByCatStatus(invoice[i].category, invoice[i].status), i)

(* No tag is held twice under two spellings, no rater counts twice, and the  *)
(* average that searches compare has a rating on either side.                *)
TagsAndRatingsOnce ==
    \A i \in Stored :
        LET ratings == invoice[i].ratings
            average == invoice[i].average
        IN  /\ IsInjective(invoice[i].tags)
            /\ IsInjective([n \in DOMAIN ratings |-> ratings[n].by])
            /\ ratings # <<>> => \E m, n \in DOMAIN ratings :
                                    ratings[m].score <= average /\ average <= ratings[n].score
            /\ \A t \in Text : Contains(InvoicesByTags({t}), i) <=>
                                   ~t.long /\ t.tag \in Range(invoice[i].tags)
=============================================================================
