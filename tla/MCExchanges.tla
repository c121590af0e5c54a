----------------------------- MODULE MCExchanges -----------------------------
(***************************************************************************)
(* The instance of Exchanges for TLC: every text of up to four tokens over *)
(* the two halves of a delimiter, of up to three with zeros, and one that  *)
(* does not fit, for a buffer of four; tags that are well-formed and tags  *)
(* that are not, with images that may hold zeros.                          *)
(***************************************************************************)
EXTENDS QueryExchange

CONSTANTS zero, lt, gt, id, openID, closeID, openLength, closeLength, pixel

AllSockets == {"client", "actuator", "generator"}
Halves == <<lt, gt>>
FirstHalf == <<lt>>
TagOpenID == <<openID>>
TagCloseID == <<closeID>>
TagOpenLength == <<openLength>>
TagCloseLength == <<closeLength>>

AllQueries == BoundedSeq({lt, gt}, 4) \cup BoundedSeq({lt, gt, zero}, 3)
                \cup {<<gt, gt, gt, lt, gt>>}
Endings == {<<gt, gt, gt>>, <<gt, lt>>}

\* Well-formed tags, and tags with a closing tag too many or alone.
AnyTags == {<<>>,
            <<openID, 7, closeID, openLength, 2, closeLength>>,
            <<openID, 7, closeID, openID, 8, closeID>>,
            <<openLength, 3, closeLength, openID, 7, closeID>>,
            <<closeLength>>, <<closeID>>,
            <<closeLength, openLength, 3, closeLength>>,
            <<openLength, 3, closeLength, closeLength>>,
            <<openID, 7, closeID, closeID, closeLength>>}
AnyImages == {<<>>, <<pixel>>, <<pixel, zero, pixel>>}

=============================================================================
