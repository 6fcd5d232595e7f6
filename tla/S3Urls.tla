-------------------------------- MODULE S3Urls --------------------------------
(***************************************************************************)
(* S3UploadService: the URL an upload is stored under in the database, and *)
(* the object deleteByUrl asks S3 to remove, possibly after the service    *)
(* was configured anew: with another bucket or region, another endpoint or *)
(* public base URL, or without one.                                        *)
(*                                                                         *)
(* A URL is a scheme, a host, the segments of its path and the extension   *)
(* of the last one.  An extension comes from the client's file name and is *)
(* plain, or has characters that new URL() encodes, or a ? or # that ends  *)
(* the path.  The hosts of endpoints, public bases and S3 itself differ.   *)
(***************************************************************************)
EXTENDS Integers, Sequences

CONSTANTS Buckets,   \* the buckets that may be configured
          Folders    \* first segments of the folders the services upload to

VARIABLES
    config,   \* the service's configuration
    url,      \* what the row stores for the uploaded image
    key,      \* the key it was uploaded under
    place,    \* the store and the bucket it was uploaded to
    deleted,  \* the objects deleteByUrl asked S3 to remove
    asked     \* deleteByUrl was called with the URL

urlVars == <<config, url, key, place, deleted, asked>>

----------------------------------------------------------------------------
NoHost == [host |-> "none", path |-> <<>>, scheme |-> TRUE]
NoBucket == ""
Region == {"region1", "region2"}
EndpointHost == {"endpoint1", "endpoint2"}

\* S3_ENDPOINT and S3_PUBLIC_BASE_URL, with or without a path; a base without a
\* scheme builds URLs that new URL() refuses.
Endpoint == {NoHost} \cup [host: EndpointHost, path: {<<>>, <<"v1">>}, scheme: {TRUE}]
PublicBase == {NoHost} \cup [host: {"cdn"}, path: {<<>>, <<"media">>}, scheme: BOOLEAN]
Config == [bucket: Buckets \cup {NoBucket}, region: Region, endpoint: Endpoint, base: PublicBase]

\* Where the S3 client sends its commands.
Place(c) == [store |-> IF c.endpoint = NoHost THEN c.region ELSE c.endpoint.host,
             bucket |-> c.bucket]

\* What the paths of bases, endpoints and keys are made of.
Segment == Folders \cup Buckets \cup {"v1", "media", "id"}

Extension == {"plain", "encoded", "cut"}
Key == [path: {<<folder, "id">> : folder \in Folders}, ext: Extension]

\* The host of the default URL is bucket.s3.region.amazonaws.com: whatever bucket
\* it names, extractKeyFromUrl asks for the .s3. alone.
BucketHost == "bucket.s3"

\* buildPublicUrl
BuildPublicUrl(c, k) ==
    IF c.base # NoHost
    THEN [host |-> c.base.host, path |-> c.base.path \o k.path, scheme |-> c.base.scheme,
          ext |-> k.ext]
    ELSE IF c.endpoint # NoHost
    THEN [host |-> c.endpoint.host, path |-> c.endpoint.path \o <<c.bucket>> \o k.path,
          scheme |-> TRUE, ext |-> k.ext]
    ELSE [host |-> BucketHost, path |-> k.path, scheme |-> TRUE, ext |-> k.ext]

\* What pathname makes of an extension: only a plain one survives.
Parsed(ext) == IF ext = "plain" THEN "plain" ELSE "other"

WithoutBucket(bucket, path) == IF Head(path) = bucket THEN Tail(path) ELSE path

\* Mutant: the configured endpoint is not recognised.
ExtractedPathByHost(c, u) ==
    IF u.host = BucketHost THEN WithoutBucket(c.bucket, u.path) ELSE u.path

ExtractedPath(c, u) ==
    IF c.base # NoHost /\ c.base.host = u.host THEN u.path
    ELSE IF (c.endpoint # NoHost /\ c.endpoint.host = u.host) \/ u.host = BucketHost
    THEN WithoutBucket(c.bucket, u.path)
    ELSE u.path

NoKey == [path |-> <<>>, ext |-> "plain"]

\* extractKeyFromUrl: null when either URL does not parse.
ExtractKey(c, u) ==
    IF ~u.scheme \/ ~c.base.scheme THEN NoKey
    ELSE [path |-> ExtractedPath(c, u), ext |-> Parsed(u.ext)]

----------------------------------------------------------------------------
Object == [place: [store: Region \cup EndpointHost, bucket: Buckets],
           key: [path: Seq(Segment), ext: {"plain", "other"}]]

TypeOK ==
    /\ config \in Config
    /\ key \in Key
    /\ place \in [store: Region \cup EndpointHost, bucket: Buckets]
    /\ url \in [host: {"cdn", BucketHost} \cup EndpointHost, path: Seq(Segment),
                scheme: BOOLEAN, ext: Extension]
    /\ deleted \in SUBSET Object
    /\ asked \in BOOLEAN

\* uploadFile, which throws without a bucket.
Init ==
    /\ config \in Config
    /\ config.bucket # NoBucket
    /\ key \in Key
    /\ url = BuildPublicUrl(config, key)
    /\ place = Place(config)
    /\ deleted = {}
    /\ asked = FALSE

\* The service starts with another value of one setting; of several in several steps.
Reconfigure ==
    /\ ~asked
    /\ \/ \E b \in Buckets \cup {NoBucket} : config' = [config EXCEPT !.bucket = b]
       \/ \E r \in Region : config' = [config EXCEPT !.region = r]
       \/ \E e \in Endpoint : config' = [config EXCEPT !.endpoint = e]
       \/ \E p \in PublicBase : config' = [config EXCEPT !.base = p]
    /\ UNCHANGED <<url, key, place, deleted, asked>>

\* Nothing is sent without a bucket or a key.
DeleteByUrl ==
    LET k == ExtractKey(config, url) IN
    /\ ~asked
    /\ asked' = TRUE
    /\ deleted' = IF config.bucket = NoBucket \/ k = NoKey THEN {}
                  ELSE {[place |-> Place(config), key |-> k]}
    /\ UNCHANGED <<config, url, key, place>>

Next == Reconfigure \/ DeleteByUrl

Spec == Init /\ [][Next]_urlVars

----------------------------------------------------------------------------
\* The stored URL does not give back the key: its base or endpoint has a path, the
\* folder is named like the bucket on the default host, a URL does not parse, or
\* the extension of the client's file name is not one a URL keeps.
Misread ==
    \/ url.host = "cdn" /\ url.path # key.path
    \/ url.host \in EndpointHost /\ url.path # <<place.bucket>> \o key.path
    \/ url.host = BucketHost /\ Head(key.path) = place.bucket
    \/ ~url.scheme \/ ~config.base.scheme
    \/ key.ext # "plain"

\* The service works on another bucket, endpoint or region now.
Elsewhere == Place(config) # place

\* deleteByUrl removes exactly the object that was uploaded, whatever the bucket,
\* region, endpoint and public base URL were then and are now, unless the service
\* works elsewhere now or the URL is misread: such an object stays in S3 for ever.
DeletesItsUpload ==
    asked => (deleted = {[place |-> place, key |-> key]} <=> ~Elsewhere /\ ~Misread)
=============================================================================
