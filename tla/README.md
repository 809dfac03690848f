# TLA+ models of the chat web UI

This directory holds TLA+ models of the browser chat client under
`src/smallthinker/tools/server/webui/src` and `src/tools/server/webui/src`.
TLC checks every module. `PROJECT.json` lists the components, runs, mutants,
the source lines each definition models (`map`), the findings and the hazards.

## The system

The client is a single-threaded, event-driven React application. It has these
parts:

| Part | Source | What it does |
|---|---|---|
| Conversation tree | `utils/types.ts`, `ChatScreen.tsx` `getListMessageDisplay` | Each message has a `parent` and ordered `children`. The screen shows one branch, chosen by a leaf id (`currNodeId`). `-1` means "the most recent leaf". Every shown message has a "version n of m" navigator over its siblings (`ChatMessage.tsx`). |
| Chat screen | `ChatScreen.tsx`, `ChatMessage.tsx`, `ChatInputExtraContextItem.tsx` | `sendNewMessage`, `handleEditMessage`, `handleRegenerateMessage`, `onChunk`, the stop button, the `currConvId` effect, paste and drop, the `?m=` / `?q=` prefill, a message's edit textarea, and the items' remove buttons. The handlers await `sendMessage` / `replaceMessageAndGenerate` of the app context. The app context is not part of the sources, so it is taken from `spec.md` sec. 4.2, 5 and 7. |
| Extra context | `useChatExtraContext.tsx` | The list of attached items (`addItems`, `removeItem`, `clearItems`). `onFileAdded` loops over a batch of files. Images, SVGs, audio and PDFs are awaited. Text files use a `FileReader` callback. |
| SSE parser | `utils/misc.ts` `getSSEStreamAsync` | Turns response lines into JSON events, and error lines into exceptions. |
| Request content | `misc.ts` `normalizeMsgsForAPI`, `filterThoughtFromMsgs`; `ChatMessage.tsx` split | Turns a user message with items into content parts: the items first, then the text. Splits an assistant message into the shown answer and the collapsible thought. Strips the thought before the message is sent back. |
| Sidebar | `Sidebar.tsx`, `ModalProvider.tsx` | Lists the conversations grouped by date and highlights the route's conversation (`currConv`). The list is reloaded on mount and on every storage change event. `currConv` is looked up on every route change. Both reads resolve later and are applied as they resolve. Delete and rename go through a confirm or prompt dialog. |
| VSCode bridge | `utils/llama-vscode.ts` | `setText` fills the input and replaces the items with the editor's context, then submits 10 ms later through `refOnSubmit`. That ref holds the `sendNewMessage` of the last render. |

The parts interact in these ways:
- The chat screen reads the tree through the branch resolver.
- The chat screen adds items through the extra-context hook.
- The chat screen starts generations. A generation's chunks come from the SSE parser.
- The sidebar reads the same store and the same `isGenerating`. It hears of writes only through the store's change events.
- The VSCode bridge writes the chat screen's textarea and items, and calls its `sendNewMessage`.

## Modules

| Module | Models | State and actions |
|---|---|---|
| `MessageTree` | The resolver | Pure operators. `FindLeafNode` and `GetListMessageDisplay` follow `ChatScreen.tsx` line by line. `SiblingAt` follows the navigator. `FilterByLeafNodeId` and `AppendMsg` (storage.ts) come from the spec. |
| `MessageStore` | One tree growing as the UI grows it | State: `msgs`, `nextId`. Action: `AppendChild(p)`, under any node. |
| `ChatSession` | The chat screen with two conversations, and the VSCode bridge | The store, the running generations, `viewConv`, `currNodeId`, the textarea, the items, the files being read, the open edit textareas (`editing`), the bridge's timers, and `snap` (what the last render captured). Every handler is one action, and its guard reads `snap` as the closure does. Code after an `await` runs in the step that resolves the awaited call (`Resume`, inside `StreamEnd`, `StreamError` and `StopGenerating`). `Submit` is one call of `sendNewMessage`: it sends, is refused by `sendMessage` (`SendRefused`), or shows a toast. A click is followed by a render. `Mount` (the `?q=` effect) and `BridgeSubmit` (the timer) are not, so they act on the last render's closure. `Render` publishes a new snapshot, and `Unmount` drops the edit state of messages it no longer shows. The helpers `setValue`, `addItems`, `removeItem` and `clearItems` translate the textarea and item APIs, and the handlers use them. |
| `FileIngestion` | `onFileAdded` | Per batch: `pc`, `idx` and `stage` (the awaits left for the current file). Also the pending `FileReader`s, `items` and the toasts. `LoopStep` is one loop iteration, up to its `await` or `break`. `Converted`, `ConvertFailed` and `ReadStalled` are the three ways an await can end. `ReaderLoad` is the text reader's `onload`. |
| `SSEStream` | `getSSEStreamAsync` | The response's lines, the position, the events yielded, and the end state. `ReadLine` is one loop iteration. `BodyFails` is a broken connection. `SpecParse` is the contract of spec sec. 4.2. |
| `SSEContract` | What spec sec. 4.2 and 7 promise the stream's consumer | Abstract: the events are delivered in order (`Emit`), then the stream ends as the response says (`Finish`), or fails (`Fail`), or is stopped (`Halt`). `SSEStream` instantiates it with the mapping body ← `lines`, emitted ← `out`. Lines that yield nothing are stuttering steps. |
| `SidebarGroups` | `groupConversationsByDate` | The sort, the buckets and the month keys as operators. The store gains, touches and removes conversations, and days pass. The groups shown are the `useMemo` on `conversations`: `groupedOn` is the day they were computed, which is the day of the last change of the store, so while days pass the buckets stay stale (Sidebar.tsx:44). `parsable` says whether `new Date("<Month> <Year>")` parses in the browser's locale. |
| `SidebarActions` | `Sidebar` with `ModalProvider` | `list` and `loads` are the sidebar's `conversations` and the reloads in flight. `currConv` and `lookups` are the highlight and the lookups in flight. `events` counts writes whose change event has not been handled yet. `dialog` is the open confirm or prompt, holding the awaiting handler's conversation. `Notify` is `handleConversationChange`, and `LoadDone` and `LookupDone` are the reads resolving. `Select`, `NewConversation`, `AskToModify`, `Dismiss`, `ConfirmDelete` and `SubmitRename` are the clicks. Only listed conversations can be clicked. Generations start and end freely, and each one writes. `ReorderedReads` says whether reads may complete out of order. |
| `ChatTurn` | One exchange: the user turn as sent, and the reply as shown and sent back | `turn` is the user message, with up to two items of any type. The reply is streamed token by token. `NormalizeMsg` follows `normalizeMsgsForAPI`. `SplitMessage` is the code's loop, including `split(sep, 2)`, and `RefSplit` is its reference. `FilterThought` is `filterThoughtFromMsgs`. |

Each `MC_*.tla` module gives the constants small values, and each `.cfg`
file is one run.

## Runs

| Run | Expect | What it shows |
|---|---|---|
| `message_tree` | pass | Every tree with up to 8 messages, and every leaf argument (each id and `-1`), is checked. `BranchIsRootPath`: the displayed list is a root path ending at the request, and every navigator counts its siblings and points at itself. `NavigatorSelectsVersion`: clicking version j shows that version at the same depth. |
| `chat_session` | pass | Covers sends (including refused ones), the `?q=` send on mount, edits through the edit textarea, regenerations, stops, stream ends and errors, pastes, drops, removes, conversation switches, and the VSCode bridge with its delayed submit, over 2 conversations. `ReplyShownWhenDone` is checked at the step where a generation ends with its conversation in view: the display then ends at the reply. This covers the reset of `currNodeId` after the await in edit and regenerate (ChatScreen.tsx:172, 187). No property says that at most one generation runs per conversation. The refusal that ensures it belongs to `sendMessage` and `replaceMessageAndGenerate`, which are taken from the spec and refuse on the current state, so no UI interleaving could break such a property. What a double submit does reach is a refused send whose `clearItems()` drops the items, which `extra_items_lost` shows. |
| `extra_items_lost` | violation | `ExtraItemsNotLost`: an item pasted while a send is awaiting is wiped by `clearItems()` (ChatScreen.tsx:155) and never sent. |
| `file_ingestion` | pass | One batch of up to 3 files of any of the 10 kinds, PDFs of 1 or 2 pages, vision and `pdfAsImage` both ways, and I/O failures included. `ItemsMatchFiles` checks four things. Items only come from accepted files, with the right type. No file both becomes an item and gets an error notice. Only a PDF rendered as images becomes several items, one per page (useChatExtraContext.tsx:104-111). Those page items stay together, whatever `FileReader` callbacks run around the conversion. It does not catch the silent drop of an empty text file (useChatExtraContext.tsx:134), which is listed as a hazard. |
| `pdf_stops_batch` | violation | `RemainingFilesProcessed`: the file after a converted PDF is dropped by the `break` at line 128. |
| `sse_stream` | pass | `ImplementsContract`: the generator refines `SSEContract`. This covers every response of up to 3 lines, with the connection breaking or the consumer stopping at any point. It is checked with TLC as a temporal property, so it also checks that a stream read to its end does end. |
| `sidebar_groups` | pass | `SidebarNewestFirst`: every stored conversation is listed once, and newest first across all groups. It holds over the stale groups too: a late regrouping moves a conversation into another bucket but never changes the order. Covers 3 conversations over 42 days (months of 10 days), with parsable and unparsable month keys. |
| `sidebar_session` | pass | Reads complete in the order they were issued. `HighlightFollowsRoute`: once no lookup is in flight, the highlighted conversation is the route's conversation, or none if the route names no stored conversation. `ListCatchesUp`: whatever the store holds, the list comes to show it, names included, unless the store changes first. This covers 2 conversations with deletes, renames, selections and generations. |
| `sidebar_delete_while_generating` | violation | `NoChangeWhileGenerating`: the trace is open the delete dialog, start a generation, confirm. |
| `chat_turn` | pass | `DisplayMatchesReference`: for R1-style replies (one leading think block), stopped at any token, the shown answer, the thought and the "thinking" flag match the reference. `RequestFollowsSpec`: each item becomes one part referring to it, in the order added, with the text last (spec sec. 6). |
| `think_split_blocks` | violation | `DisplayMatchesReference` with several think blocks: `split('<think>', 2)` drops the second block and everything after it. |
| `thought_history` | violation | `HistoryMatchesDisplay`: a reply stopped inside `<think>` shows an empty answer, but is sent back with its raw thought. |

Other disagreements were found while modelling but have no run of their
own. The last five are also hazards in `PROJECT.json`:
- **Default view.** The `-1` view shows the most recent leaf (sec. 4.1). Spec sec. 8 expects it to follow the last child from the root.
- **onChunk.** It sets `currNodeId` to an id that is not stored yet, so the view falls back to the latest leaf while a reply streams on an older branch.
- **PDF toast.** The toast promises a text conversion, then the code `break`s.
- **SSE after `[DONE]`.** Data lines after `data: [DONE]` are still yielded. Setting `AfterDone = TRUE` in `MC_SSEStream.cfg` shows it.
- **VSCode context lost.** `ExtraItemsNotLost` is also broken by the bridge alone. `setText` replaces the items, and the timer fires before React renders. The stale `sendNewMessage` sends the old, empty items, and its `clearItems()` drops the editor's context. With `PasteContext` and `DropFile` disabled, TLC finds this trace.
- **Refused send clears the items.** When `sendMessage` refuses because the conversation is generating, `sendNewMessage` restores the text but still calls `clearItems()` (`SendRefused`). Spec sec. 7 says a refused operation leaves the state unchanged.
- **Failed read aborts the batch.** A conversion that rejects is caught outside the loop, which ends the batch. Spec sec. 7 says one file failing does not abort the batch. `MC_FileIngestion_readfail.cfg` shows it with `RemainingFilesProcessed`. It is run by hand because the same property already has a violation run.
- **Out-of-order reads in the sidebar.** Read-only IndexedDB transactions may run concurrently. `MC_SidebarActions_reorder.cfg` sets `ReorderedReads = TRUE`, and TLC breaks `HighlightFollowsRoute`. In that trace, New conversation is clicked while the lookup of `c1` is in flight, the later lookup resolves first, and `c1` stays highlighted on `/`. With the same configuration `ListCatchesUp` fails too: a stale reload lands last and leaves a deleted conversation listed.
- **Edit lost.** Submit closes the edit textarea before `handleEditMessage` runs. If the conversation generates, the edit is refused and its text is gone.

Every property of a passing run has a mutant in `PROJECT.json`: a plausible bug
in the mapped code, such as a dropped guard, an off-by-one or a missing reset.
TLC finds that property violated under the run's own configuration.

## Bounds

- **`MessageStore`: 8 messages.** Enough for a branch of depth 4 beside a sibling with its own subtree, or three versions of one message each with a reply. 9 messages take about 8 times longer (46k states).
- **`ChatSession`: 2 conversations, 7 message ids, 1 item, 1 text, 1 bridge timer.** Enough for several cases:
  - a generation in one conversation while the user switches to the other;
  - an edit or regeneration on an older version;
  - an item added during an awaited send;
  - a bridge submit through a stale closure, followed by a refused send.

  At most three user messages are shown, so every set of open edit textareas is reached. With 8 ids and edit mode, the run takes about 4 minutes alone.
- **`FileIngestion`: one batch of at most 3 files, PDFs of at most 2 pages.** Enough for a failing file followed by a later one, an awaited file next to a reader callback, and a PDF that becomes several items. The two violation runs restrict the kinds to the two that matter. Two concurrent batches of 2 files each (a paste during a drop) reach 3.3 million states and take about 18 minutes, so that interleaving is left to the hazard list.
- **`SSEStream`: 3 lines over 2 payloads, and a broken connection before any of them.** Enough for data, then an error or `[DONE]`, then more data.
- **`SidebarActions`: 2 conversations, 1 unhandled change event, 2 reads of each kind in flight.** Enough for the mount reload to overlap the reload after a delete, and for a lookup to overlap a later one. With 2 pending events the session run takes 3.5 minutes alone.
- **`SidebarGroups`: 3 conversations, 42 days, jumps of 1, 7 and 23 days.** Enough to reach every bucket boundary and two different months.
- **`ChatTurn`: 6 tokens, and 2 items of 4 types and 2 audio mime types.** Enough for two tags, a letter before, between and after them, and a space to trim. Two items are enough to tell their order apart.

## Fairness

Only the browser's own work is fair. Under weak fairness:
- streams end;
- awaited promises settle and their continuations run;
- `FileReader` callbacks fire;
- timers fire and effects run;
- storage change events are dispatched and IndexedDB reads complete;
- React renders pending updates;
- a response body the server keeps sending is read to its end.

User actions and the editor's messages are never fair. The user need not click anything. A broken connection is possible, but never assumed. A
`FileReader` error has no handler in the code, so `ReadStalled` is a possible
outcome and is not assumed away. A stalled batch never handles its remaining files. `RemainingFilesProcessed` under `MC_FileIngestion_readfail.cfg` shows this; that cfg is run by hand.

## Not modelled

- **The VSCode bridge's Escape listener.** It only posts a message to the parent window and changes no state of the UI, so it has no action. Every other part of the bridge is modelled.
- **Scrolling, textarea sizing (`useChatTextarea`'s `adjustTextareaHeight`), the item preview, and markdown rendering.** The textarea's value is modelled as `textarea`. `value()` reads it. The helper `setValue` writes it, and so does typing. The `savedInitValue` effect writes `prefilledMsg.content()` into it before any event, which is `ChatSession`'s `Init`. The height only affects layout. One sizing hazard is listed without a property: the shared throttle drops the resize after `setValue('')` when Enter follows a keystroke within 100 ms.
- **`onDownload`.** It serialises the conversation for the browser to save, and changes no state.
- **`showAlert` and `handleAlertClose`.** Nothing calls `showAlert`.
- **`throttle` and `copyStr`.** `throttle` only serves the textarea sizing. `copyStr` is clipboard and DOM I/O. Its fallback leaves a hidden textarea in the page on every copy, which is listed as a hazard.
- **The byte-level parts.** UTF-8 decoding, line splitting, base64, pdf.js and canvas are abstracted to the outcomes the code distinguishes.
- **`StorageUtils` (IndexedDB) and the app context.** They are not under `src/`. Only what the spec says of them is modelled, and those definitions are marked `spec_modelled` in the map.

## Plan for later work

1. **A multi-turn history in `ChatTurn`.** Check that the request of turn n+1 extends that of turn n. This is the prompt-cache reuse that the normalization order is for.
2. **Storage model.** `appendMsg`, `filterByLeafNodeId`, `onConversationChanged` with its async reload, and `getAllConversations` ordering. This makes the `spec_modelled` definitions a refinement: `MessageStore` would become an `INSTANCE` of an abstract store.
3. **`SidebarActions` composed with `SidebarGroups`.** The order the reloaded list is shown in.
