----------------------------- MODULE ReconTypes -----------------------------
(***************************************************************************)
(* The enumerations of include/recon/types.h that the C++ core shares, and *)
(* the one conversion between two of them.  Their to_string functions are  *)
(* wording and are left out.                                               *)
(***************************************************************************)

Side == {"Buy", "Sell"}

MatchState == {"Matched", "QtyMismatch", "PriceMismatch", "MissingInternal",
               "MissingBroker", "Duplicate"}

ExceptionSeverity == {"Low", "Medium", "High", "Critical"}

ExceptionState == {"Detected", "Acknowledged", "Investigating", "Resolved",
                   "Escalated", "WrittenOff"}

SettlementStatus == {"Pending", "Instructed", "Settled", "Failed", "BuyIn"}

severity_from_match ==
    [m \in MatchState |->
        CASE m = "Matched"                             -> "Low"
          [] m \in {"QtyMismatch", "Duplicate"}        -> "High"
          [] m = "PriceMismatch"                       -> "Medium"
          [] m \in {"MissingInternal", "MissingBroker"} -> "Critical"]

=============================================================================
