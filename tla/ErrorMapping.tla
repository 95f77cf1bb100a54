---------------------------- MODULE ErrorMapping ----------------------------
(***************************************************************************)
(* What becomes of an exception on its way to the user: the filter of the  *)
(* service that throws it (RpcExceptionFilter on a TCP handler, Global-    *)
(* ExceptionFilter at the gateway), the client proxy of the service that   *)
(* called (callTcpService), and the frontend's ApiError.  Messages are     *)
(* left out: an error is its code.                                         *)
(***************************************************************************)
EXTENDS Integers

ErrorCode == {
    "VALIDATION_ERROR", "UNAUTHORIZED", "FORBIDDEN_ROLE", "ORDER_NOT_FOUND",
    "PRODUCT_NOT_FOUND", "USER_NOT_FOUND", "DUPLICATE_EMAIL", "DUPLICATE_SKU",
    "INSUFFICIENT_STOCK", "INVALID_TRANSITION", "ALREADY_PROCESSED", "RATE_LIMITED",
    "SERVICE_UNAVAILABLE", "INTERNAL_ERROR", "RECAPTCHA_FAILED"}

\* An exception: an ApiException (or one of its domain subclasses), a plain HttpException
\* of Nest, or anything else, such as a MongoServerError.
Api(code) == [class |-> "ApiException", code |-> code, status |-> 0]
Http(status) == [class |-> "HttpException", code |-> "none", status |-> status]
Other == [class |-> "Error", code |-> "none", status |-> 0]

StatusOf(code) ==
    CASE code \in {"VALIDATION_ERROR", "RECAPTCHA_FAILED"} -> 400
      [] code = "UNAUTHORIZED" -> 401
      [] code = "FORBIDDEN_ROLE" -> 403
      [] code \in {"ORDER_NOT_FOUND", "PRODUCT_NOT_FOUND", "USER_NOT_FOUND"} -> 404
      [] code \in {"DUPLICATE_EMAIL", "DUPLICATE_SKU", "INSUFFICIENT_STOCK", "INVALID_TRANSITION"} -> 409
      [] code = "ALREADY_PROCESSED" -> 422
      [] code = "RATE_LIMITED" -> 429
      [] code = "SERVICE_UNAVAILABLE" -> 503
      [] OTHER -> 500

\* fallbackCode: NOT_FOUND and CONFLICT are outside the catalog.
CodeOf(status) ==
    CASE status = 400 -> "VALIDATION_ERROR"
      [] status = 401 -> "UNAUTHORIZED"
      [] status = 403 -> "FORBIDDEN_ROLE"
      [] status = 404 -> "NOT_FOUND"
      [] status = 409 -> "CONFLICT"
      [] status = 429 -> "RATE_LIMITED"
      [] OTHER -> "INTERNAL_ERROR"

\* normalizeToErrorBody; its branch for an RpcException is left out, since no handler that
\* is modelled throws one.
Body(exception) ==
    CASE exception.class = "ApiException"  -> [status |-> StatusOf(exception.code), code |-> exception.code]
      [] exception.class = "HttpException" -> [status |-> exception.status, code |-> CodeOf(exception.status)]
      [] OTHER                             -> [status |-> 500, code |-> "INTERNAL_ERROR"]

\* toApiException, of the error body a service has answered.
CollapsedToApi(code) == Api("SERVICE_UNAVAILABLE")
ToApiException(code) == Api(IF code \in ErrorCode THEN code ELSE "SERVICE_UNAVAILABLE")

\* What the caller throws when the call timed out or could not be made.
GaveUp == Api("SERVICE_UNAVAILABLE")
=============================================================================
